---- MODULE Spec2Model ----
(***************************************************************************)
(* A model of the reason-quality evaluation harness                        *)
(* (scripts/reason_quality_eval.py) and of its guardrail gate              *)
(* (scripts/reason_guardrail_gate.py).                                     *)
(*                                                                         *)
(* Texts are strings; substring tests and the regular expressions of the   *)
(* source are computed on their characters.                                *)
(* Python floats are IEEE-754 binary64 values; they are modelled bit for   *)
(* bit (53-bit significand, round to nearest, ties to even), because the   *)
(* source compares unrounded floats with thresholds and reports the floats *)
(* rounded to four decimals.                                               *)
(***************************************************************************)
EXTENDS Integers, Sequences, FiniteSets, TLC

(***************************************************************************)
(* Natural numbers of any size: little-endian sequences of 15-bit limbs    *)
(* without leading zero limbs (TLC's integers are 32 bits wide, a binary64 *)
(* significand is 53).                                                     *)
(***************************************************************************)
BASE == 2^15

Hd(a) == IF a = <<>> THEN 0 ELSE Head(a)

Tl(a) == IF a = <<>> THEN <<>> ELSE Tail(a)

RECURSIVE BigOf(_)
BigOf(n) == IF n = 0 THEN <<>> ELSE <<n % BASE>> \o BigOf(n \div BASE)

RECURSIVE Trim(_)
Trim(a) ==
  IF a = <<>> THEN a
  ELSE IF a[Len(a)] = 0 THEN Trim(SubSeq(a, 1, Len(a) - 1)) ELSE a

RECURSIVE AddC(_, _, _)
AddC(a, b, c) ==
  IF a = <<>> /\ b = <<>> THEN (IF c = 0 THEN <<>> ELSE <<c>>)
  ELSE LET x == Hd(a) + Hd(b) + c
       IN  <<x % BASE>> \o AddC(Tl(a), Tl(b), x \div BASE)

BigAdd(a, b) == AddC(a, b, 0)

RECURSIVE SubB(_, _, _)
SubB(a, b, br) ==
  IF a = <<>> THEN <<>>
  ELSE LET x == Hd(a) - Hd(b) - br
       IN  <<(x + BASE) % BASE>> \o SubB(Tl(a), Tl(b), IF x < 0 THEN 1 ELSE 0)

\* a - b, for a >= b
BigSub(a, b) == Trim(SubB(a, b, 0))

RECURSIVE CmpFrom(_, _, _)
CmpFrom(a, b, i) ==
  IF i = 0 THEN 0
  ELSE IF a[i] > b[i] THEN 1
  ELSE IF a[i] < b[i] THEN -1
  ELSE CmpFrom(a, b, i - 1)

\* -1, 0 or 1 as a < b, a = b, a > b
BigCmp(a, b) ==
  IF Len(a) > Len(b) THEN 1
  ELSE IF Len(a) < Len(b) THEN -1
  ELSE CmpFrom(a, b, Len(a))

RECURSIVE MulC(_, _, _)
MulC(a, d, c) ==
  IF a = <<>> THEN (IF c = 0 THEN <<>> ELSE <<c>>)
  ELSE LET x == a[1] * d + c
       IN  <<x % BASE>> \o MulC(Tail(a), d, x \div BASE)

\* a * d for one limb d
BigMulLimb(a, d) == IF d = 0 THEN <<>> ELSE MulC(a, d, 0)

LimbUp(a) == IF a = <<>> THEN a ELSE <<0>> \o a

RECURSIVE BigMul(_, _)
BigMul(a, b) ==
  IF b = <<>> THEN <<>>
  ELSE BigAdd(BigMulLimb(a, b[1]), LimbUp(BigMul(a, Tail(b))))

RECURSIVE DivLimbFrom(_, _, _, _)
DivLimbFrom(a, d, i, rem) ==
  IF i = 0 THEN [q |-> <<>>, r |-> rem]
  ELSE LET cur  == rem * BASE + a[i]
           rest == DivLimbFrom(a, d, i - 1, cur % d)
       IN  [q |-> rest.q \o <<cur \div d>>, r |-> rest.r]

\* quotient and remainder of a by one limb d > 0
TrimQuot(x) == [q |-> Trim(x.q), r |-> IF x.r = 0 THEN <<>> ELSE <<x.r>>]

BigDivLimb(a, d) == TrimQuot(DivLimbFrom(a, d, Len(a), 0))

RECURSIVE Bits(_)
Bits(n) == IF n = 0 THEN 0 ELSE 1 + Bits(n \div 2)

BitLen(a) == IF a = <<>> THEN 0 ELSE (Len(a) - 1) * 15 + Bits(a[Len(a)])

\* a * 2^s
ShiftL(a, s) ==
  IF a = <<>> THEN a
  ELSE [i \in 1..(s \div 15) |-> 0] \o MulC(a, 2^(s % 15), 0)

\* floor(a / 2^s)
ShiftR(a, s) ==
  IF s \div 15 >= Len(a) THEN <<>>
  ELSE BigDivLimb(SubSeq(a, (s \div 15) + 1, Len(a)), 2^(s % 15)).q

\* The next quotient limb, for R < D * BASE and D's top limb at least BASE/2:
\* the estimate from the top limbs is at most 2 too large (Knuth, 4.3.1).
RECURSIVE Fit(_, _, _)
Fit(R, D, q) == IF BigCmp(BigMulLimb(D, q), R) <= 0 THEN q ELSE Fit(R, D, q - 1)

Estimate(R, D) ==
  LET n    == Len(D)
      top  == (IF Len(R) > n THEN R[n + 1] ELSE 0) * BASE
                + (IF Len(R) >= n THEN R[n] ELSE 0)
      est  == top \div D[n]
  IN  IF est > BASE - 1 THEN BASE - 1 ELSE est

Digit(R, D, q) == [q |-> q, r |-> BigSub(R, BigMulLimb(D, q))]

DivDigit(R, D) == Digit(R, D, Fit(R, D, Estimate(R, D)))

NextRem(n, i, up) == IF up.r = <<>> /\ n[i] = 0 THEN <<>> ELSE <<n[i]>> \o up.r

PushDigit(up, dg) ==
  [q |-> IF up.q = <<>> /\ dg.q = 0 THEN <<>> ELSE <<dg.q>> \o up.q, r |-> dg.r]

DivStep(n, d, i, up) == PushDigit(up, DivDigit(NextRem(n, i, up), d))

\* long division of the limbs i and above of n by d, most significant limb first
RECURSIVE LongDiv(_, _, _)
LongDiv(n, d, i) ==
  IF i > Len(n) THEN [q |-> <<>>, r |-> <<>>]
  ELSE DivStep(n, d, i, LongDiv(n, d, i + 1))

Inexact(x) == [q |-> x.q, inexact |-> x.r # <<>>]

\* a divisor of several limbs is first scaled so that its top limb is at
\* least BASE/2
ScaledDiv(n, d, sh) == LongDiv(ShiftL(n, sh), ShiftL(d, sh), 1)

\* quotient of n by d > 0, and whether the remainder is not zero
BigDivMod(n, d) ==
  Inexact(IF Len(d) = 1 THEN BigDivLimb(n, d[1])
          ELSE ScaledDiv(n, d, 15 - Bits(d[Len(d)])))

(***************************************************************************)
(* binary64: [s, m, e] stands for (-1)^s * m * 2^e with 2^52 <= m < 2^53,  *)
(* or m = <<>> for zero.  Every operation returns the exact result rounded *)
(* to the nearest such value, ties to even, as IEEE-754 prescribes.        *)
(* Subnormals, infinities and NaN are out of the range of this program's   *)
(* scores and are not represented.                                         *)
(***************************************************************************)
MantBits == 52 + 1

FZero == [s |-> 0, m |-> <<>>, e |-> 0]

\* whether N / 2^r, of floor q, is nearer to q + 1 (ties to even)
HalfUp(c, q) == c > 0 \/ (c = 0 /\ Hd(q) % 2 = 1)

RoundsUp(N, r, q) ==
  HalfUp(BigCmp(BigSub(N, ShiftL(q, r)), ShiftL(<<1>>, r - 1)), q)

\* the integer nearest to N / 2^r, of floor q
Nearest(N, r, q) == IF RoundsUp(N, r, q) THEN BigAdd(q, <<1>>) ELSE q

Carry(s, q, e) ==
  IF BitLen(q) > MantBits THEN [s |-> s, m |-> ShiftR(q, 1), e |-> e + 1]
  ELSE [s |-> s, m |-> q, e |-> e]

RoundBits(s, N, e, bl) ==
  IF bl <= MantBits
  THEN [s |-> s, m |-> ShiftL(N, MantBits - bl), e |-> e - (MantBits - bl)]
  ELSE Carry(s, Nearest(N, bl - MantBits, ShiftR(N, bl - MantBits)),
             e + (bl - MantBits))

\* the binary64 nearest to (-1)^s * N * 2^e
RoundInt(s, N, e) == IF N = <<>> THEN FZero ELSE RoundBits(s, N, e, BitLen(N))

Sticky(s, qr, e) == RoundInt(s, AddC(qr.q, qr.q, IF qr.inexact THEN 1 ELSE 0), e)

RoundQuot(s, N, D, e, k) ==
  Sticky(s, BigDivMod(IF k >= 0 THEN ShiftL(N, k) ELSE N,
                      IF k >= 0 THEN D ELSE ShiftL(D, -k)), e - k - 1)

\* the binary64 nearest to (-1)^s * (N / D) * 2^e: a quotient of at least 56
\* bits, with a sticky bit for the remainder, rounded once
RoundRat(s, N, D, e) ==
  IF N = <<>> THEN FZero
  ELSE RoundQuot(s, N, D, e, BitLen(D) - BitLen(N) + MantBits + 3)

Abs(n) == IF n < 0 THEN -n ELSE n

Sgn(n) == IF n < 0 THEN 1 ELSE 0

\* float(n) for an integer n
FromInt(n) == RoundInt(Sgn(n), BigOf(Abs(n)), 0)

\* the float a decimal literal n/d denotes (d a power of ten), and n / float(d)
FromRat(n, d) == RoundRat(Sgn(n), BigOf(Abs(n)), BigOf(d), 0)

FOne == [s |-> 0, m |-> <<0, 0, 0, 128>>, e |-> -52]

MagCmp(x, y) ==
  IF x.m = <<>> THEN (IF y.m = <<>> THEN 0 ELSE -1)
  ELSE IF y.m = <<>> THEN 1
  ELSE IF x.e # y.e THEN (IF x.e > y.e THEN 1 ELSE -1)
  ELSE BigCmp(x.m, y.m)

\* -1, 0 or 1 as x < y, x = y, x > y
FCmp(x, y) ==
  IF x.s = y.s THEN (IF x.s = 0 THEN 1 ELSE -1) * MagCmp(x, y)
  ELSE IF x.s = 1 THEN -1 ELSE 1

FGe(x, y) == FCmp(x, y) >= 0

FLt(x, y) == FCmp(x, y) < 0

FMin(x, y) == IF FLt(y, x) THEN y ELSE x

AddSigned(x, y, X, Y, c, e) ==
  RoundInt(IF x.s = y.s \/ c >= 0 THEN x.s ELSE y.s,
           IF x.s = y.s THEN BigAdd(X, Y)
           ELSE IF c >= 0 THEN BigSub(X, Y) ELSE BigSub(Y, X), e)

AddAligned(x, y, X, Y, e) == AddSigned(x, y, X, Y, BigCmp(X, Y), e)

AddAt(x, y, e) == AddAligned(x, y, ShiftL(x.m, x.e - e), ShiftL(y.m, y.e - e), e)

\* x + y
FAdd(x, y) ==
  IF x.m = <<>> THEN y
  ELSE IF y.m = <<>> THEN x
  ELSE AddAt(x, y, IF x.e < y.e THEN x.e ELSE y.e)

\* x * y
FMul(x, y) ==
  IF x.m = <<>> \/ y.m = <<>> THEN FZero
  ELSE RoundInt((x.s + y.s) % 2, BigMul(x.m, y.m), x.e + y.e)

\* x / y, y # 0
FDiv(x, y) ==
  IF x.m = <<>> THEN FZero
  ELSE RoundRat((x.s + y.s) % 2, x.m, y.m, x.e - y.e)

ScaledBy(T, e) ==
  IF e >= 0 THEN ShiftL(T, e) ELSE Nearest(T, -e, ShiftR(T, -e))

\* |x| * 10^4 rounded to the nearest integer, ties to even
Scaled4(x) == IF x.m = <<>> THEN <<>> ELSE ScaledBy(BigMulLimb(x.m, 10000), x.e)

\* round(x, 4): the decimal with four places nearest to x, read back as a float
Round4(x) == RoundRat(x.s, Scaled4(x), BigOf(10000), 0)

(***************************************************************************)
(* Text.  A str is a TLA+ string; Ch(t, i) is its i-th character, or "" off *)
(* either end.  CodeOf gives the code points that sorted() and lower() use. *)
(* The characters are ASCII's tab, line feed, carriage return and 32..126   *)
(* but the grave accent (96), which a TLA+ string cannot hold.              *)
(***************************************************************************)
\* the code points 32..95
Printable1 ==
  " !\"#$%&'()*+,-./0123456789:;<=>?@ABCDEFGHIJKLMNOPQRSTUVWXYZ[\\]^_"

\* the code points 97..126
Printable2 == "abcdefghijklmnopqrstuvwxyz{|}~"

Chars ==
  {SubSeq(Printable1, i, i) : i \in 1..Len(Printable1)}
    \cup {SubSeq(Printable2, i, i) : i \in 1..Len(Printable2)}
    \cup {"\t", "\n", "\r"}

CodeOf ==
  [c \in Chars |->
     IF c = "\t" THEN 9 ELSE IF c = "\n" THEN 10 ELSE IF c = "\r" THEN 13
     ELSE IF \E i \in 1..Len(Printable1) : SubSeq(Printable1, i, i) = c
     THEN 31 + (CHOOSE i \in 1..Len(Printable1) : SubSeq(Printable1, i, i) = c)
     ELSE 96 + (CHOOSE i \in 1..Len(Printable2) : SubSeq(Printable2, i, i) = c)]

\* str.lower() of one character: A..Z (65..90) to a..z (97..122)
LowerOf ==
  [c \in Chars |->
     IF CodeOf[c] \in 65..90 THEN SubSeq(Printable2, CodeOf[c] - 64, CodeOf[c] - 64) ELSE c]

Ch(t, i) == IF i \in 1..Len(t) THEN SubSeq(t, i, i) ELSE ""

Digits == {c \in Chars : CodeOf[c] \in 48..57}

\* \w
WordChars == {c \in Chars : CodeOf[c] \in (48..57) \cup (65..90) \cup (97..122) \cup {95}}

\* \s
Spaces == {" ", "\t", "\n", "\r"}

Min(S) == CHOOSE x \in S : \A y \in S : x <= y

Max(S) == CHOOSE x \in S : \A y \in S : x >= y

\* str.lower(), by halves
RECURSIVE Lower(_)
Lower(t) ==
  IF Len(t) = 0 THEN t
  ELSE IF Len(t) = 1 THEN LowerOf[t]
  ELSE Lower(SubSeq(t, 1, Len(t) \div 2)) \o Lower(SubSeq(t, (Len(t) \div 2) + 1, Len(t)))

\* term in t
Contains(t, term) ==
  \E i \in 1..(Len(t) - Len(term) + 1) : SubSeq(t, i, i + Len(term) - 1) = term

\* t[i:].startswith(lit)
At(t, i, lit) == i >= 1 /\ i + Len(lit) - 1 <= Len(t) /\ SubSeq(t, i, i + Len(lit) - 1) = lit

\* the str order of Python: by code point at the first difference, a proper
\* prefix first
StrLess(a, b) ==
  LET n == IF Len(a) < Len(b) THEN Len(a) ELSE Len(b)
      D == {i \in 1..n : Ch(a, i) # Ch(b, i)}
  IN  IF D = {} THEN Len(a) < Len(b)
      ELSE CodeOf[Ch(a, Min(D))] < CodeOf[Ch(b, Min(D))]

\* sorted(S) for a set of str
RECURSIVE Sorted(_)
Sorted(S) ==
  IF S = {} THEN <<>>
  ELSE LET least == CHOOSE x \in S : \A y \in S \ {x} : StrLess(x, y)
       IN  <<least>> \o Sorted(S \ {least})

\* the first position from i on whose character is not in the class
RECURSIVE SkipClass(_, _, _)
SkipClass(t, i, class) ==
  IF Ch(t, i) \notin class THEN i ELSE SkipClass(t, i + 1, class)

\* \b between the characters i-1 and i
Boundary(t, i) == (Ch(t, i - 1) \in WordChars) # (Ch(t, i) \in WordChars)

\* ^ under re.MULTILINE
LineStart(t, i) == i = 1 \/ Ch(t, i - 1) = "\n"

\* len(regex.findall(t)) from the end of the match at each position (0: no
\* match there): the scan takes the leftmost match and resumes at its end
RECURSIVE CountFrom(_, _)
CountFrom(ends, pos) ==
  LET S == {p \in DOMAIN ends : p >= pos /\ ends[p] # 0}
  IN  IF S = {} THEN 0 ELSE 1 + CountFrom(ends, ends[Min(S)])

(***************************************************************************)
(* The constants and patterns of reason_quality_eval.py.                   *)
(***************************************************************************)
DIMENSIONS == <<"actionability", "factual_grounding", "contradiction_handling", "usefulness">>

\* a decimal literal n/100 of the source, as the float it denotes
Lit(n) == FromRat(n, 100)

DEFAULT_WEIGHTS ==
  [actionability |-> Lit(30), factual_grounding |-> Lit(30),
   contradiction_handling |-> Lit(15), usefulness |-> Lit(25)]

DEFAULT_MIN_SCORES ==
  [actionability |-> Lit(55), factual_grounding |-> Lit(50),
   contradiction_handling |-> Lit(50), usefulness |-> Lit(60)]

METRIC_ALIASES ==
  [actionability |-> "actionability", actionability_score |-> "actionability",
   factual_grounding |-> "factual_grounding", grounding |-> "factual_grounding",
   grounding_score |-> "factual_grounding",
   contradiction_handling |-> "contradiction_handling",
   contradiction_handling_score |-> "contradiction_handling",
   usefulness |-> "usefulness", concise_clarity |-> "usefulness",
   concise_clarity_score |-> "usefulness"]

\* the action terms without "fix"
ACTION_TERMS_WITHOUT_FIX ==
  <<"next step", "next steps", "recommend", "recommendation", "do this", "ship", "implement",
    "owner", "timeline", "priority", "follow-up", "mitigation">>

ACTION_TERMS ==
  <<"next step", "next steps", "recommend", "recommendation", "do this", "ship",
    "implement", "fix", "owner", "timeline", "priority", "follow-up", "mitigation">>

GROUNDING_TERMS ==
  <<"source", "sources", "fact", "facts", "memory", "memories", "confidence",
    "evidence", "according", "from", "based on", "provenance">>

CONTRADICTION_TERMS ==
  <<"contradiction", "contradict", "conflict", "inconsistent", "mismatch", "however",
    "on the other hand", "trade-off", "uncertain", "cannot verify">>

RESOLUTION_TERMS ==
  <<"resolve", "reconcile", "supersede", "verify", "confirm", "deprecate", "follow up">>

USEFULNESS_TERMS ==
  <<"summary", "impact", "risk", "recommendation", "decision", "priority", "why", "because">>

\* a match of the literal lit at i with \b on both sides
WordAt(t, i, lit) == At(t, i, lit) /\ Boundary(t, i) /\ Boundary(t, i + Len(lit))

\* CONTRADICTION_PROMPT_HINT.search(t): \b(conflict|contradict|inconsistent|
\* mismatch|trade[- ]off|disagree)\b, re.IGNORECASE
CONTRADICTION_PROMPT_HINT(t) ==
  LET low == Lower(t)
  IN  \E i \in 1..Len(t) :
        \E lit \in {"conflict", "contradict", "inconsistent", "mismatch", "trade-off",
                    "trade off", "disagree"} : WordAt(low, i, lit)

\* len(WORD_RE.findall(t)), \b\w+\b: the maximal runs of word characters
WORD_RE(t) ==
  Cardinality({i \in 1..Len(t) : Ch(t, i) \in WordChars /\ Ch(t, i - 1) \notin WordChars})

\* the end of the match of BULLET_RE at p, (?m)^\s*(?:[-*]|\d+\.)\s+, or 0
BulletEnd(t, p) ==
  LET j == SkipClass(t, p, Spaces)
      d == SkipClass(t, j, Digits)
      m == IF Ch(t, j) \in {"-", "*"} THEN j + 1
           ELSE IF d > j /\ Ch(t, d) = "." THEN d + 1 ELSE 0
  IN  IF LineStart(t, p) /\ m > 0 /\ Ch(t, m) \in Spaces THEN SkipClass(t, m, Spaces) ELSE 0

\* len(BULLET_RE.findall(t))
BULLET_RE(t) == CountFrom([p \in 1..Len(t) |-> BulletEnd(t, p)], 1)

\* the end of the match of HEADING_RE at p, (?m)^\s*(?:#{1,3}\s+|\*\*[^*]+\*\*), or 0
HeadingEnd(t, p) ==
  LET j == SkipClass(t, p, Spaces)
      h == SkipClass(t, j, {"#"})
      r == SkipClass(t, j + 2, Chars \ {"*"})
  IN  IF ~LineStart(t, p) THEN 0
      ELSE IF h - j \in 1..3 /\ Ch(t, h) \in Spaces THEN SkipClass(t, h, Spaces)
      ELSE IF At(t, j, "**") /\ r > j + 2 /\ At(t, r, "**") THEN r + 2
      ELSE 0

\* len(HEADING_RE.findall(t))
HEADING_RE(t) == CountFrom([p \in 1..Len(t) |-> HeadingEnd(t, p)], 1)

\* DATE_OWNER_RE.search(t) on the lowered text: \b(owner|who|by\s+\w+|today|
\* tomorrow|this week|next week|next sprint|due)\b
DATE_OWNER_RE(t) ==
  \E i \in 1..Len(t) :
    \/ \E lit \in {"owner", "who", "today", "tomorrow", "this week", "next week",
                   "next sprint", "due"} : WordAt(t, i, lit)
    \/ /\ At(t, i, "by") /\ Boundary(t, i)
       /\ Ch(t, i + 2) \in Spaces
       /\ Ch(t, SkipClass(t, i + 2, Spaces)) \in WordChars

\* the end of the match of CONFIDENCE_RE at p, \[[01]\.\d{2}\], or 0
ConfidenceEnd(t, p) ==
  IF /\ Ch(t, p) = "[" /\ Ch(t, p + 1) \in {"0", "1"} /\ Ch(t, p + 2) = "."
     /\ Ch(t, p + 3) \in Digits /\ Ch(t, p + 4) \in Digits /\ Ch(t, p + 5) = "]"
  THEN p + 6 ELSE 0

\* len(CONFIDENCE_RE.findall(t))
CONFIDENCE_RE(t) == CountFrom([p \in 1..Len(t) |-> ConfidenceEnd(t, p)], 1)

\* the end of \.(?:md|txt|json|yaml|yml|go|py):\d+\b at q, or 0; t is the
\* lowered text, which is what re.IGNORECASE matches the letters against
FileTailEnd(t, q) ==
  LET E == {ext \in {"md", "txt", "json", "yaml", "yml", "go", "py"} :
              At(t, q, "." \o ext \o ":")}
      a == q + Len(CHOOSE ext \in E : TRUE) + 2
      d == SkipClass(t, a, Digits)
  IN  IF E # {} /\ d > a /\ Ch(t, d) \notin WordChars THEN d ELSE 0

\* the end of the match of FILE_LINE_RE at p, \b[\w./-]+\.(?:md|...|py):\d+\b
\* with re.IGNORECASE, or 0: the greedy [\w./-]+ gives back one character at
\* a time, so the tail matches at the last place it can
FileLineEnd(t, p) ==
  LET r == SkipClass(t, p, WordChars \cup {".", "/", "-"})
      Q == {q \in (p + 1)..(r - 1) : FileTailEnd(t, q) # 0}
  IN  IF Boundary(t, p) /\ Q # {} THEN FileTailEnd(t, Max(Q)) ELSE 0

\* len(FILE_LINE_RE.findall(t))
FILE_LINE_RE(t) ==
  LET low == Lower(t)
  IN  CountFrom([p \in 1..Len(t) |-> FileLineEnd(low, p)], 1)

\* the end of %?\b at d, after a digit
PercentEnd(t, d) ==
  IF Ch(t, d) = "%" /\ Boundary(t, d + 1) THEN d + 1
  ELSE IF Boundary(t, d) THEN d ELSE 0

\* the end of the match of NUMERIC_SPEC_RE at p, \b\d+(?:\.\d+)?%?\b, or 0
NumericEnd(t, p) ==
  LET d1 == SkipClass(t, p, Digits)
      d2 == SkipClass(t, d1 + 1, Digits)
  IN  IF ~(Boundary(t, p) /\ d1 > p) THEN 0
      ELSE IF Ch(t, d1) = "." /\ d2 > d1 + 1 /\ PercentEnd(t, d2) # 0 THEN PercentEnd(t, d2)
      ELSE PercentEnd(t, d1)

\* len(NUMERIC_SPEC_RE.findall(t))
NUMERIC_SPEC_RE(t) == CountFrom([p \in 1..Len(t) |-> NumericEnd(t, p)], 1)

(***************************************************************************)
(* The scorers.  A dict is a function on its keys; {} is EmptyDict.        *)
(***************************************************************************)
EmptyDict == [k \in {} |-> 0]

\* d.get(k, default)
Get(d, k, default) == IF k \in DOMAIN d THEN d[k] ELSE default

normalize_text(s) == Lower(s)

unique_hits(text, terms) ==
  LET t == normalize_text(text)
  IN  Sorted({terms[i] : i \in {j \in 1..Len(terms) : Contains(t, Lower(terms[j]))}})

\* keyword_dict without the cap at 1.0
keyword_dict_uncapped(hits, terms, min_hits) ==
  [score    |-> FromRat(Len(hits), min_hits),
   hits     |-> hits,
   hit_count |-> Len(hits),
   min_hits |-> min_hits,
   terms    |-> terms]

\* keyword_score's dict, from the hits
keyword_dict(hits, terms, min_hits) ==
  [score    |-> FMin(FOne, FromRat(Len(hits), min_hits)),
   hits     |-> hits,
   hit_count |-> Len(hits),
   min_hits |-> min_hits,
   terms    |-> terms]

keyword_hits(text, terms, min_hits) == keyword_dict(unique_hits(text, terms), terms, min_hits)

keyword_score(text, cfg, fallback_terms) ==
  keyword_hits(text, Get(cfg, "must_include_any", fallback_terms),
               Max({1, Get(cfg, "min_hits", 1)}))

to_rubric(score) ==
  IF FGe(score, Lit(85)) THEN 3
  ELSE IF FGe(score, Lit(65)) THEN 2
  ELSE IF FGe(score, Lit(40)) THEN 1
  ELSE 0

\* what every scorer returns for its unrounded score: the score rounded to
\* four decimals, and the rubric band of the unrounded score
Scored(score, details) ==
  [score |-> Round4(score), rubric_score |-> to_rubric(score), details |-> details]

\* the entries of details that come from keyword_score
KeywordDetails(k) ==
  [hits |-> k.hits, hit_count |-> k.hit_count, min_hits |-> k.min_hits,
   terms |-> k.terms, keyword_score |-> Round4(k.score)]

\* heuristic = 0.0 and its three increments, then min(1.0, heuristic)
Heuristic3(a, b, c) == FMin(FOne, FAdd(FAdd(FAdd(FZero, a), b), c))

\* score_actionability from keyword and heuristic on
actionability_dict(k, heur, bullets, action_hits, has_owner_or_time) ==
  Scored(FAdd(FMul(Lit(60), k.score), FMul(Lit(40), heur)),
         KeywordDetails(k) @@
         [heuristic_score |-> Round4(heur),
          bullet_lines |-> bullets,
          action_term_hits |-> action_hits,
          owner_or_time_detected |-> has_owner_or_time])

actionability_heuristic(k, bullets, action_hits, has_owner_or_time) ==
  actionability_dict(
    k,
    Heuristic3(IF bullets >= 2 THEN Lit(35) ELSE IF bullets = 1 THEN Lit(20) ELSE FZero,
               IF action_hits >= 3 THEN Lit(35) ELSE IF action_hits > 0 THEN Lit(20) ELSE FZero,
               IF has_owner_or_time THEN Lit(30) ELSE FZero),
    bullets, action_hits, has_owner_or_time)

score_actionability(text, cfg) ==
  actionability_heuristic(keyword_score(text, cfg, ACTION_TERMS),
                          BULLET_RE(text),
                          Len(unique_hits(text, ACTION_TERMS)),
                          DATE_OWNER_RE(normalize_text(text)))

\* score_factual_grounding from keyword and heuristic on
grounding_dict(k, heur, confidence_tags, file_line_mentions, provenance_hits, uncertainty_hits, contains_from_phrase) ==
  Scored(FAdd(FMul(Lit(65), k.score), FMul(Lit(35), heur)),
         KeywordDetails(k) @@
         [heuristic_score |-> Round4(heur),
          confidence_tags |-> confidence_tags,
          file_line_mentions |-> file_line_mentions,
          provenance_hits |-> provenance_hits,
          uncertainty_hits |-> uncertainty_hits,
          contains_from_phrase |-> contains_from_phrase])

grounding_heuristic(k, confidence_tags, file_line_mentions, provenance_hits, uncertainty_hits, contains_from_phrase) ==
  grounding_dict(
    k,
    Heuristic3(IF confidence_tags + file_line_mentions >= 2 THEN Lit(50)
               ELSE IF confidence_tags + file_line_mentions >= 1 THEN Lit(30) ELSE FZero,
               IF provenance_hits >= 2 THEN Lit(30)
               ELSE IF provenance_hits = 1 THEN Lit(15) ELSE FZero,
               IF uncertainty_hits >= 1 THEN Lit(20) ELSE FZero),
    confidence_tags, file_line_mentions, provenance_hits, uncertainty_hits,
    contains_from_phrase)

score_factual_grounding(text, cfg) ==
  grounding_heuristic(
    keyword_score(text, cfg, GROUNDING_TERMS),
    CONFIDENCE_RE(text),
    FILE_LINE_RE(text),
    Len(unique_hits(text, <<"source", "fact", "memory", "evidence", "provenance">>)),
    Len(unique_hits(text, <<"confidence", "likely", "uncertain", "unknown", "cannot verify">>)),
    Contains(normalize_text(text), "from"))

\* contradiction_required reading the flag as cfg.get("required") or the hint
contradiction_required_or(prompt, cfg) ==
  Get(cfg, "required", FALSE) \/ CONTRADICTION_PROMPT_HINT(prompt)

contradiction_required(prompt, cfg) ==
  IF "required" \in DOMAIN cfg THEN cfg["required"]
  ELSE CONTRADICTION_PROMPT_HINT(prompt)

\* score_contradiction_handling from keyword and heuristic on, when required
contradiction_dict(k, heur, contradiction_hits, resolution_hits, uncertainty_hits) ==
  [required |-> TRUE] @@
  Scored(FAdd(FMul(Lit(70), k.score), FMul(Lit(30), heur)),
         KeywordDetails(k) @@
         [heuristic_score |-> Round4(heur),
          contradiction_hits |-> contradiction_hits,
          resolution_hits |-> resolution_hits,
          uncertainty_hits |-> uncertainty_hits])

contradiction_heuristic(k, contradiction_hits, resolution_hits, uncertainty_hits) ==
  contradiction_dict(
    k,
    Heuristic3(IF resolution_hits >= 1 THEN Lit(50) ELSE Lit(20),
               IF uncertainty_hits >= 1 THEN Lit(30) ELSE FZero,
               IF contradiction_hits >= 2 THEN Lit(20)
               ELSE IF contradiction_hits = 1 THEN Lit(10) ELSE FZero),
    contradiction_hits, resolution_hits, uncertainty_hits)

score_contradiction_handling(prompt, text, cfg) ==
  IF ~contradiction_required(prompt, cfg)
  THEN [score |-> FOne, rubric_score |-> 3, required |-> FALSE,
        details |-> [mode |-> "not-required"]]
  ELSE contradiction_heuristic(
         keyword_score(text, cfg, CONTRADICTION_TERMS),
         Len(unique_hits(text, CONTRADICTION_TERMS)),
         Len(unique_hits(text, RESOLUTION_TERMS)),
         Len(unique_hits(text, <<"uncertain", "cannot verify", "unknown", "confidence">>)))

\* score_usefulness from word_score, keyword and heuristic on
usefulness_dict(k, word_score, heur, words, min_words, headings, bullets, specificity) ==
  Scored(FAdd(FAdd(FMul(Lit(40), word_score), FMul(Lit(35), k.score)), FMul(Lit(25), heur)),
         KeywordDetails(k) @@
         [word_score |-> Round4(word_score),
          heuristic_score |-> Round4(heur),
          word_count |-> words,
          min_words |-> min_words,
          headings |-> headings,
          bullet_lines |-> bullets,
          specificity_tokens |-> specificity])

\* heuristic = 0.0 and its four increments, then min(1.0, heuristic)
usefulness_heuristic(k, words, min_words, headings, bullets, specificity, summary_hits) ==
  usefulness_dict(
    k,
    FMin(FOne, FromRat(words, min_words)),
    FMin(FOne,
         FAdd(FAdd(FAdd(FAdd(FZero, IF headings >= 1 THEN Lit(25) ELSE FZero),
                        IF bullets >= 3 THEN Lit(25) ELSE IF bullets >= 1 THEN Lit(10) ELSE FZero),
                   IF specificity >= 2 THEN Lit(25)
                   ELSE IF specificity >= 1 THEN Lit(10) ELSE FZero),
              IF summary_hits >= 2 THEN Lit(25)
              ELSE IF summary_hits = 1 THEN Lit(10) ELSE FZero)),
    words, min_words, headings, bullets, specificity)

\* score_usefulness with min_words as configured, without the floor of 40
score_usefulness_unfloored(text, cfg) ==
  usefulness_heuristic(
    keyword_score(text, cfg, USEFULNESS_TERMS),
    WORD_RE(text),
    Get(cfg, "min_words", 100),
    HEADING_RE(text),
    BULLET_RE(text),
    NUMERIC_SPEC_RE(text),
    Len(unique_hits(text, <<"summary", "recommend", "risk", "impact", "decision">>)))

score_usefulness(text, cfg) ==
  usefulness_heuristic(
    keyword_score(text, cfg, USEFULNESS_TERMS),
    WORD_RE(text),
    Max({40, Get(cfg, "min_words", 100)}),
    HEADING_RE(text),
    BULLET_RE(text),
    NUMERIC_SPEC_RE(text),
    Len(unique_hits(text, <<"summary", "recommend", "risk", "impact", "decision">>)))

\* d.update(u) on a copy of d
Update(d, u) == u @@ d

normalize_metric_key(key) == Get(METRIC_ALIASES, key, key)

\* two keys of values that normalize to the same key would leave the entry
\* of the later one; the fixtures drawn here hold no such pair
normalize_metric_map(values) ==
  [d \in {normalize_metric_key(k) : k \in DOMAIN values} |->
     values[CHOOSE k \in DOMAIN values : normalize_metric_key(k) = d]]

\* main: weights = dict(DEFAULT_WEIGHTS); weights.update(normalize_metric_map(...))
MergedWeights(fixture_weights) == Update(DEFAULT_WEIGHTS, normalize_metric_map(fixture_weights))

(***************************************************************************)
(* The inputs.  A response text is a concatenation of at most MaxFrags     *)
(* fragments; a fixture holds at most MaxCases cases.                      *)
(***************************************************************************)
MaxFrags == 2

MaxCases == 2

Fragments ==
  {"- Next step: fix the retry bug\n- Owner: alice\n",
   "- Timeline: this week\n",
   "## Summary [0.92]: sources in notes.md:12 conflict, however we resolve it; impact 50%\n",
   "Risk is uncertain because 2 facts mismatch.\n"}

RECURSIVE TextsOf(_)
TextsOf(n) ==
  IF n = 0 THEN {""}
  ELSE TextsOf(n - 1) \cup {t \o f : t \in TextsOf(n - 1), f \in Fragments}

Texts == TextsOf(MaxFrags)

\* a response of forty words
WordyText ==
  "Summary: we recommend the fix because the risk is low and the impact is high.\n"
    \o "The owner can ship it this week, and if it does not go well we roll it back "
    \o "in a day or so, as planned.\n"

Prompts == {"List the open conflicts", "Resolve the Conflict between sources"}

\* expected_signals of the fixture cases
SignalSets ==
  {[contradiction_handling |-> [required |-> FALSE, min_score |-> Lit(110)]],
   [contradiction_handling |->
      [required |-> TRUE, must_include_any |-> <<"conflict", "supersede">>, min_hits |-> 2],
    grounding |-> [min_score |-> Lit(30)]],
   [actionability_score |->
      [must_include_any |-> <<"retry", "Owner", "owner", "rollback">>, min_hits |-> 3,
       min_score |-> Lit(40)],
    usefulness |-> [min_words |-> 10, min_score |-> Lit(20)]]}

EvalCases ==
  {[prompt |-> p] : p \in Prompts}
    \cup {[prompt |-> p, expected_signals |-> g] : p \in Prompts, g \in SignalSets}

\* dimension_weights of the fixture
FixtureWeights ==
  {EmptyDict,
   [grounding |-> Lit(50), concise_clarity |-> Lit(10)],
   [usefulness |-> FromRat(-25, 100)],
   [actionability |-> FZero, grounding |-> FZero, contradiction_handling |-> FZero,
    usefulness |-> FZero]}

\* case_min_overall: the default 0.65, and 0.8255
CaseFloors == {Lit(65), FromRat(8255, 10000)}

\* the keys signal_cfg tries for a dimension, in order
Candidates(dim) ==
  <<dim>> \o
  (IF dim = "factual_grounding"
     THEN <<"grounding", "grounding_score", "factual_grounding_score">>
   ELSE IF dim = "usefulness"
     THEN <<"concise_clarity", "concise_clarity_score", "usefulness_score">>
   ELSE IF dim = "actionability" THEN <<"actionability_score">>
   ELSE IF dim = "contradiction_handling" THEN <<"contradiction_handling_score">>
   ELSE <<>>)

\* signals holds its dict entries only: signal_cfg skips an entry that is
\* not a dict exactly as it skips a missing key
signal_cfg(signals, dim) ==
  LET c  == Candidates(dim)
      ok == {i \in 1..Len(c) : c[i] \in DOMAIN signals}
  IN  IF ok = {} THEN EmptyDict ELSE signals[c[Min(ok)]]

\* the response texts of the suite runs: one that passes under the defaults,
\* and one left blank
GoodText ==
  "- Next step: fix the retry bug\n- Owner: alice\n"
    \o "## Summary [0.92]: sources in notes.md:12 conflict, however we resolve it; impact 50%\n"

\* the cases of the suite fixtures: one with id and prompt, one with the
\* legacy query and no id, one without prompt
SuiteCases ==
  {[id |-> "plan", prompt |-> "List the open conflicts"],
   [query |-> "Resolve the Conflict between sources",
    expected_signals |-> [grounding |-> [min_score |-> Lit(30)]]],
   [id |-> "blank"]}

RECURSIVE CaseLists(_)
CaseLists(n) ==
  IF n = 0 THEN {<<>>}
  ELSE CaseLists(n - 1) \cup {Append(cs, c) : cs \in CaseLists(n - 1), c \in SuiteCases}

\* a fixture of three cases that asks for a pass rate of 0.6667
ThirdsFixture ==
  [cases |-> [i \in 1..3 |-> [id |-> "plan", prompt |-> "List the open conflicts"]],
   thresholds |-> [suite_min_pass_rate |-> FromRat(6667, 10000)]]

\* the data of the fixture file with the command line: the defaults, a
\* fixture with thresholds run with --fail-on-errors, and a run with
\* --max-cases 1; then a file without cases, one with an empty cases array,
\* one that gives its cases under the legacy key prompts, and the fixture
\* of three cases
Setups ==
  {[fixture |-> [cases |-> cs] @@ x.fixture, args |-> x.args] :
     cs \in CaseLists(MaxCases) \ {<<>>},
     x \in {[fixture |-> EmptyDict, args |-> [fail_on_errors |-> FALSE]],
            [fixture |-> [thresholds |->
                            [case_min_overall |-> Lit(70),
                             suite_min_pass_rate |-> Lit(50),
                             dimension_min_average |-> [grounding |-> Lit(50)]]],
             args |-> [fail_on_errors |-> TRUE]],
            [fixture |-> EmptyDict, args |-> [fail_on_errors |-> FALSE, max_cases |-> 1]]}}
    \cup {[fixture |-> f, args |-> [fail_on_errors |-> FALSE]] :
            f \in {[name |-> "no cases"],
                   [cases |-> <<>>],
                   [prompts |-> <<[id |-> "plan", prompt |-> "List the open conflicts"]>>],
                   ThirdsFixture}}

\* what the external process does in one invocation: it runs over the
\* timeout, or exits with a return code, stdout and stderr.  stdout is text
\* that is not JSON, a JSON array, or a JSON object: one with a response,
\* one with a token count and no content, one with blank content and a
\* token count, one with empty content and no tokens
Outcomes ==
  {[timeout |-> TRUE, returncode |-> 0, stdout |-> [type |-> "text"], stderr |-> ""],
   [timeout |-> FALSE, returncode |-> 1, stdout |-> [type |-> "text"],
    stderr |-> "provider unavailable\n"],
   [timeout |-> FALSE, returncode |-> 0, stdout |-> [type |-> "text"], stderr |-> ""],
   [timeout |-> FALSE, returncode |-> 0, stdout |-> [type |-> "array"], stderr |-> ""],
   [timeout |-> FALSE, returncode |-> 0,
    stdout |-> [type |-> "object", value |-> [content |-> GoodText, tokens_out |-> 64]],
    stderr |-> ""],
   [timeout |-> FALSE, returncode |-> 0,
    stdout |-> [type |-> "object", value |-> [tokens_out |-> 7]], stderr |-> ""],
   [timeout |-> FALSE, returncode |-> 0,
    stdout |-> [type |-> "object", value |-> [content |-> " \n", tokens_out |-> 5]],
    stderr |-> ""],
   [timeout |-> FALSE, returncode |-> 0,
    stdout |-> [type |-> "object", value |-> [content |-> "", tokens_out |-> 0]],
    stderr |-> ""]}

AllCases == EvalCases \cup SuiteCases

(***************************************************************************)
(* The scorers are functions of the response text and the SignalConfig     *)
(* (and, for contradiction handling, the prompt).  Their results over the  *)
(* inputs above are tabulated once (f @@ EmptyDict is f, which TLC then     *)
(* holds as a table); evaluate_case reads the table where it holds the     *)
(* call and computes the scorer otherwise.                                 *)
(***************************************************************************)
Tabled(table, key, value) == IF key \in DOMAIN table THEN table[key] ELSE value

SignalsOf(cases) == {Get(c, "expected_signals", EmptyDict) : c \in cases}

ActionabilityTable ==
  [x \in {signal_cfg(g, "actionability") : g \in SignalsOf(AllCases)} \X Texts |->
     score_actionability(x[2], x[1])] @@ EmptyDict

FactualGroundingTable ==
  [x \in {signal_cfg(g, "factual_grounding") : g \in SignalsOf(AllCases)} \X Texts |->
     score_factual_grounding(x[2], x[1])] @@ EmptyDict

ContradictionHandlingTable ==
  [x \in {<<Get(c, "prompt", ""),
            signal_cfg(Get(c, "expected_signals", EmptyDict), "contradiction_handling")>> :
            c \in AllCases} \X Texts |->
     score_contradiction_handling(x[1][1], x[2], x[1][2])] @@ EmptyDict

UsefulnessTable ==
  [x \in {signal_cfg(g, "usefulness") : g \in SignalsOf(AllCases)} \X Texts |->
     score_usefulness(x[2], x[1])] @@ EmptyDict

\* the scorer calls of evaluate_case
actionability_of(content, cfg) ==
  Tabled(ActionabilityTable, <<cfg, content>>, score_actionability(content, cfg))

factual_grounding_of(content, cfg) ==
  Tabled(FactualGroundingTable, <<cfg, content>>, score_factual_grounding(content, cfg))

contradiction_handling_of(prompt, content, cfg) ==
  Tabled(ContradictionHandlingTable, <<<<prompt, cfg>>, content>>,
         score_contradiction_handling(prompt, content, cfg))

usefulness_of(content, cfg) ==
  Tabled(UsefulnessTable, <<cfg, content>>, score_usefulness(content, cfg))

\* dims of evaluate_case
dimension_results(prompt, content, signals) ==
  [actionability |-> actionability_of(content, signal_cfg(signals, "actionability")),
   factual_grounding |->
     factual_grounding_of(content, signal_cfg(signals, "factual_grounding")),
   contradiction_handling |->
     contradiction_handling_of(prompt, content,
                               signal_cfg(signals, "contradiction_handling")),
   usefulness |-> usefulness_of(content, signal_cfg(signals, "usefulness"))]

\* the loop of evaluate_case over DIMENSIONS, for one dimension
dim_required(dims, dim) == Get(dims[dim], "required", TRUE)

\* dim_min_score without the per-case override
dim_min_score_default(signals, dim) == DEFAULT_MIN_SCORES[dim]

dim_min_score(signals, dim) ==
  Get(signal_cfg(signals, dim), "min_score", DEFAULT_MIN_SCORES[dim])

\* dim_passed without the required flag
dim_passed_by_score(signals, dims, dim) ==
  FGe(dims[dim].score, dim_min_score(signals, dim))

dim_passed(signals, dims, dim) ==
  ~dim_required(dims, dim) \/ FGe(dims[dim].score, dim_min_score(signals, dim))

failure_entries(signals, dims, failing) ==
  [i \in 1..Len(failing) |->
     [dimension |-> failing[i], score |-> dims[failing[i]].score,
      min |-> dim_min_score(signals, failing[i])]]

\* hard_failures: an entry for each required dimension that did not pass,
\* in the order of DIMENSIONS
hard_failures_of(signals, dims) ==
  failure_entries(signals, dims,
                  SelectSeq(DIMENSIONS,
                            LAMBDA dim : dim_required(dims, dim) /\ ~dim_passed(signals, dims, dim)))

\* WeightSum over the default weights, whatever the fixture overrides
RECURSIVE WeightSumDefaults(_, _)
WeightSumDefaults(weights, n) ==
  IF n = 0 THEN FZero
  ELSE FAdd(WeightSumDefaults(weights, n - 1), DEFAULT_WEIGHTS[DIMENSIONS[n]])

\* weight_sum after the first n dimensions of the loop
RECURSIVE WeightSum(_, _)
WeightSum(weights, n) ==
  IF n = 0 THEN FZero
  ELSE FAdd(WeightSum(weights, n - 1),
            Get(weights, DIMENSIONS[n], DEFAULT_WEIGHTS[DIMENSIONS[n]]))

\* weighted_total after the first n dimensions of the loop
RECURSIVE WeightedTotal(_, _, _)
WeightedTotal(dims, weights, n) ==
  IF n = 0 THEN FZero
  ELSE FAdd(WeightedTotal(dims, weights, n - 1),
            FMul(dims[DIMENSIONS[n]].score,
                 Get(weights, DIMENSIONS[n], DEFAULT_WEIGHTS[DIMENSIONS[n]])))

\* overall = weighted_total / weight_sum if weight_sum > 0 else 0.0
Quotient(weighted_total, weight_sum) ==
  IF FLt(FZero, weight_sum) THEN FDiv(weighted_total, weight_sum) ELSE FZero

overall_of(dims, weights) ==
  Quotient(WeightedTotal(dims, weights, Len(DIMENSIONS)), WeightSum(weights, Len(DIMENSIONS)))

\* case_dict with passed decided by the overall score alone
case_dict_by_overall(signals, dims, overall, hard_failures, case_min_overall) ==
  [overall_score |-> Round4(overall),
   overall_rubric_score |-> to_rubric(overall),
   case_min_overall |-> case_min_overall,
   passed |-> FGe(overall, case_min_overall),
   hard_failures |-> hard_failures,
   dimension_scores |->
     [dim \in DOMAIN dims |->
        [min_score |-> dim_min_score(signals, dim),
         passed |-> dim_passed(signals, dims, dim)] @@ dims[dim]]]

\* the dict evaluate_case returns
case_dict(signals, dims, overall, hard_failures, case_min_overall) ==
  [overall_score |-> Round4(overall),
   overall_rubric_score |-> to_rubric(overall),
   case_min_overall |-> case_min_overall,
   passed |-> FGe(overall, case_min_overall) /\ Len(hard_failures) = 0,
   hard_failures |-> hard_failures,
   dimension_scores |->
     [dim \in DOMAIN dims |->
        [min_score |-> dim_min_score(signals, dim),
         passed |-> dim_passed(signals, dims, dim)] @@ dims[dim]]]

case_scores(signals, dims, weights, case_min_overall) ==
  case_dict(signals, dims, overall_of(dims, weights), hard_failures_of(signals, dims),
            case_min_overall)

case_signals(signals, prompt, content, weights, case_min_overall) ==
  case_scores(signals, dimension_results(prompt, content, signals), weights,
              case_min_overall)

evaluate_case(case, content, weights, case_min_overall) ==
  case_signals(Get(case, "expected_signals", EmptyDict), Get(case, "prompt", ""),
               content, weights, case_min_overall)

(***************************************************************************)
(* The suite run of main.                                                  *)
(***************************************************************************)
\* the last position from i down whose character is not in the class, or 0
RECURSIVE SkipBack(_, _, _)
SkipBack(t, i, class) ==
  IF i = 0 \/ Ch(t, i) \notin class THEN i ELSE SkipBack(t, i - 1, class)

\* str.strip()
Strip(t) ==
  LET a == SkipClass(t, 1, Spaces)
  IN  IF a > Len(t) THEN "" ELSE SubSeq(t, a, SkipBack(t, Len(t), Spaces))

\* str(n) for n >= 0
RECURSIVE Str(_)
Str(n) ==
  (IF n < 10 THEN "" ELSE Str(n \div 10)) \o SubSeq("0123456789", (n % 10) + 1, (n % 10) + 1)

\* f"{n:03d}"
Pad3(n) == SubSeq("00", 1, Max({0, 3 - Len(Str(n))})) \o Str(n)

\* the sum of the significands of the values of sign s among the first n,
\* in units of 2^e
RECURSIVE SumMag(_, _, _, _)
SumMag(vals, s, e, n) ==
  IF n = 0 THEN <<>>
  ELSE IF vals[n].m = <<>> \/ vals[n].s # s THEN SumMag(vals, s, e, n - 1)
  ELSE BigAdd(SumMag(vals, s, e, n - 1), ShiftL(vals[n].m, vals[n].e - e))

\* the difference of the positive and the negative part, rounded once
SignedSum(P, N, c, e) ==
  RoundInt(IF c >= 0 THEN 0 ELSE 1, IF c >= 0 THEN BigSub(P, N) ELSE BigSub(N, P), e)

PartsSum(P, N, e) == SignedSum(P, N, BigCmp(P, N), e)

ExactSum(vals, e) ==
  PartsSum(SumMag(vals, 0, e, Len(vals)), SumMag(vals, 1, e, Len(vals)), e)

\* math.fsum: the exact sum, rounded once
fsum(vals) ==
  IF \A i \in 1..Len(vals) : vals[i].m = <<>> THEN FZero
  ELSE ExactSum(vals, Min({vals[i].e : i \in {j \in 1..Len(vals) : vals[j].m # <<>>}}))

\* statistics.fmean
fmean(vals) == FDiv(fsum(vals), FromInt(Len(vals)))

\* run_reason without the except around json.loads
run_reason_unparsed(out) ==
  LET result == [returncode |-> out.returncode, stdout |-> out.stdout, stderr |-> out.stderr]
  IN  IF out.returncode # 0 THEN result ELSE [payload |-> out.stdout] @@ result

\* run_reason after subprocess.run has returned (a timeout raises in it):
\* the command line and the timing of the result are left out
run_reason(out) ==
  LET result == [returncode |-> out.returncode, stdout |-> out.stdout, stderr |-> out.stderr]
  IN  IF out.returncode # 0 THEN result
      ELSE IF out.stdout.type = "text"
      THEN [result EXCEPT !.returncode = 2,
                          !.stderr =
                            "failed to parse JSON output: Expecting value: line 1 column 1 (char 0)"]
      ELSE [payload |-> out.stdout] @@ result

\* load_fixture, on the data read from the fixture file: the legacy key
\* prompts stands for cases
load_fixture(data) ==
  IF "cases" \notin DOMAIN data /\ "prompts" \in DOMAIN data
  THEN [cases |-> data.prompts] @@ data
  ELSE data

\* load_fixture raises ValueError: no cases array, or an empty one
LoadRaises(data) ==
  \/ "cases" \notin DOMAIN load_fixture(data)
  \/ Len(load_fixture(data).cases) = 0

\* a or b for str, with None as ""
Or(a, b) == IF a # "" THEN a ELSE b

\* the settings main derives from the fixture and the command line
WeightsOf(fx) ==
  MergedWeights(Get(fx, "dimension_weights", Get(fx, "weights", EmptyDict)))

Thresholds(fx) == Get(fx, "thresholds", EmptyDict)

CaseMinOverall(fx, a) ==
  Get(a, "case_min_overall",
      Get(Thresholds(fx), "case_min_overall", Get(Thresholds(fx), "overall_pass_score", Lit(65))))

SuiteMinPassRate(fx, a) ==
  Get(a, "suite_min_pass_rate",
      Get(Thresholds(fx), "suite_min_pass_rate", Get(Thresholds(fx), "pass_rate_min", Lit(70))))

\* the suite-level minimums as the fixture spells their keys
SuiteDimMinsRaw(fx) ==
  Get(Thresholds(fx), "dimension_min_average", Get(Thresholds(fx), "metric_minimums", EmptyDict))

SuiteDimMins(fx) ==
  normalize_metric_map(Get(Thresholds(fx), "dimension_min_average",
                           Get(Thresholds(fx), "metric_minimums", EmptyDict)))

\* cases = all_cases[:max_cases], when --max-cases (or --max-prompts) is given
SelectedCases(fx, a) ==
  LET max_cases == IF Get(a, "max_cases", 0) > 0 THEN a.max_cases ELSE Get(a, "max_prompts", 0)
  IN  IF max_cases > 0 THEN SubSeq(fx.cases, 1, Min({max_cases, Len(fx.cases)}))
      ELSE fx.cases

\* the state of main: the loaded fixture and the arguments, the position idx
\* of the loop over the cases, the results and the per-dimension scores so
\* far, the report once it is printed, and main's return value.  invocations
\* lists what the external process did each time it was run, with the case
\* position it was run for.  pc: "load" before load_fixture, "loop" in the
\* loop, "done" after the report, "raised" when an exception has ended main.
VARIABLES fixture, args, idx, results, dimension_rollup, invocations, report, exit_code, pc

svars == <<fixture, args, idx, results, dimension_rollup, invocations, report, exit_code, pc>>

VARIABLES the_case, the_content, the_weights, the_floor, scored, epc

evars == <<the_case, the_content, the_weights, the_floor, scored, epc>>

\* the guardrail gate, run on a report: its command line, the decision it
\* prints and its return value
VARIABLES gate_args, gate, gate_exit

gvars == <<gate_args, gate, gate_exit>>

vars == <<svars, evars, gvars>>

\* the gate has not run
GateIdle == gate_args = EmptyDict /\ gate = EmptyDict /\ gate_exit = -1

\* main is not running
SuiteIdle ==
  /\ fixture = EmptyDict /\ args = EmptyDict /\ idx = 0 /\ results = <<>>
  /\ dimension_rollup = EmptyDict /\ invocations = <<>> /\ report = EmptyDict
  /\ exit_code = -1 /\ pc = "idle"

\* no call of evaluate_case on its own
EvalIdle ==
  /\ the_case = EmptyDict /\ the_content = "" /\ the_weights = EmptyDict
  /\ the_floor = FZero /\ scored = EmptyDict /\ epc = "idle"

\* a call evaluate_case(case, content, weights, case_min_overall) of main,
\* about to be made: the case, the response text, the dimension_weights of
\* the fixture (main merges them over the defaults for the call) and
\* case_min_overall
EvalInit ==
  /\ the_case \in EvalCases
  /\ the_content \in Texts \cup {WordyText}
  /\ the_weights \in FixtureWeights
  /\ the_floor \in CaseFloors
  /\ scored = EmptyDict
  /\ epc = "call"
  /\ SuiteIdle
  /\ GateIdle

EvaluateCase ==
  /\ epc = "call"
  /\ scored' = evaluate_case(the_case, the_content, MergedWeights(the_weights), the_floor)
  /\ epc' = "return"
  /\ UNCHANGED <<the_case, the_content, the_weights, the_floor, svars, gvars>>

EvalSpec == EvalInit /\ [][EvaluateCase]_vars

\* main is started on a fixture file
Init ==
  /\ \E x \in Setups : fixture = x.fixture /\ args = x.args
  /\ idx = 1
  /\ results = <<>>
  /\ dimension_rollup = [d \in {DIMENSIONS[i] : i \in 1..Len(DIMENSIONS)} |-> <<>>]
  /\ invocations = <<>>
  /\ report = EmptyDict
  /\ exit_code = -1
  /\ pc = "load"
  /\ EvalIdle
  /\ GateIdle

\* main loads the fixture and reaches the head of its loop, or load_fixture
\* raises
Load ==
  /\ pc = "load"
  /\ IF LoadRaises(fixture)
     THEN pc' = "raised" /\ UNCHANGED fixture
     ELSE pc' = "loop" /\ fixture' = load_fixture(fixture)
  /\ UNCHANGED <<args, idx, results, dimension_rollup, invocations, report, exit_code, evars,
                 gvars>>

\* a loop that stays at the case it has just run
enumerate_again(i) == i

\* for idx, case in enumerate(cases, start=1): the position after i
enumerate_next(i) == i + 1

\* a default id that does not count the cases
CaseIdUnnumbered(case, i) == Get(case, "id", "case-001")

CaseId(case, i) == Get(case, "id", "case-" \o Pad3(i))

\* the prompt without the legacy key query
PromptOfPromptOnly(case) == Get(case, "prompt", "")

PromptOf(case) == Or(Get(case, "prompt", ""), Get(case, "query", ""))

\* an iteration for a case without prompt: no process is run
SkipCase ==
  /\ pc = "loop" /\ idx <= Len(SelectedCases(fixture, args))
  /\ LET case == SelectedCases(fixture, args)[idx]
     IN  /\ PromptOf(case) = ""
         /\ results' = Append(results, [id |-> CaseId(case, idx), passed |-> FALSE,
                                        error |-> "missing prompt/query"])
  /\ idx' = enumerate_next(idx)
  /\ UNCHANGED <<fixture, args, dimension_rollup, invocations, report, exit_code, pc, evars,
                 gvars>>

\* the entry with empty_content set for every blank response
entry_dict_any_blank(case, i, payload, content, sc) ==
  [id |-> CaseId(case, i),
   prompt |-> PromptOf(case),
   passed |-> sc.passed,
   overall_score |-> sc.overall_score,
   overall_rubric_score |-> sc.overall_rubric_score,
   case_min_overall |-> sc.case_min_overall,
   hard_failures |-> sc.hard_failures,
   dimension_scores |-> sc.dimension_scores,
   response_chars |-> Len(content),
   empty_content |-> Strip(content) = ""]

\* the entry of a case whose run returned a payload
entry_dict(case, i, payload, content, sc) ==
  [id |-> CaseId(case, i),
   prompt |-> PromptOf(case),
   passed |-> sc.passed,
   overall_score |-> sc.overall_score,
   overall_rubric_score |-> sc.overall_rubric_score,
   case_min_overall |-> sc.case_min_overall,
   hard_failures |-> sc.hard_failures,
   dimension_scores |-> sc.dimension_scores,
   response_chars |-> Len(content),
   empty_content |-> Strip(content) = "" /\ Get(payload, "tokens_out", 0) > 0]

entry_of(case, i, payload, content) ==
  entry_dict(case, i, payload, content,
             evaluate_case(case, content, WeightsOf(fixture), CaseMinOverall(fixture, args)))

ScoredEntry(case, i, payload) ==
  entry_of(case, i, payload, Or(Get(payload, "content", ""), Get(payload, "answer", "")))

\* an iteration for a case with a prompt: the process is run once.  A
\* timeout raises subprocess.TimeoutExpired in run_reason, and a payload
\* that is not an object raises AttributeError at payload.get; neither is
\* caught, so main ends there
RunCase ==
  /\ pc = "loop" /\ idx <= Len(SelectedCases(fixture, args))
  /\ LET case == SelectedCases(fixture, args)[idx]
     IN  /\ PromptOf(case) # ""
         /\ \E out \in Outcomes :
              LET run == run_reason(out)
              IN  /\ invocations' = Append(invocations, [idx |-> idx, outcome |-> out])
                  /\ IF out.timeout \/ (run.returncode = 0 /\ run.payload.type # "object")
                     THEN /\ pc' = "raised"
                          /\ UNCHANGED <<idx, results, dimension_rollup>>
                     ELSE IF run.returncode # 0
                     THEN /\ results' = Append(results,
                                 [id |-> CaseId(case, idx), prompt |-> PromptOf(case),
                                  passed |-> FALSE, error |-> Strip(run.stderr),
                                  returncode |-> run.returncode])
                          /\ idx' = enumerate_next(idx)
                          /\ UNCHANGED <<dimension_rollup, pc>>
                     ELSE /\ results' =
                               Append(results, ScoredEntry(case, idx, run.payload.value))
                          /\ dimension_rollup' =
                               [d \in DOMAIN dimension_rollup |->
                                  Append(dimension_rollup[d],
                                         results'[Len(results')].dimension_scores[d].score)]
                          /\ idx' = enumerate_next(idx)
                          /\ UNCHANGED pc
  /\ UNCHANGED <<fixture, args, report, exit_code, evars, gvars>>

\* the entries of dim_threshold_failures for the dimensions from the n-th on
RECURSIVE DimThresholdFailures(_, _, _)
DimThresholdFailures(dim_avgs, mins, n) ==
  IF n > Len(DIMENSIONS) THEN <<>>
  ELSE LET dim     == DIMENSIONS[n]
           min_avg == Get(mins, dim, FZero)
       IN  (IF FLt(FZero, min_avg) /\ FLt(dim_avgs[dim], min_avg)
            THEN <<[dimension |-> dim, avg |-> Round4(dim_avgs[dim]), min_avg |-> min_avg]>>
            ELSE <<>>) \o DimThresholdFailures(dim_avgs, mins, n + 1)

\* statistics.fmean(vals) if vals else 0.0
Mean(vals) == IF Len(vals) # 0 THEN fmean(vals) ELSE FZero

\* the overall scores with 0.0 for an entry that has none
ScoredOverallOrZero(res) == [i \in 1..Len(res) |-> Get(res[i], "overall_score", FZero)]

\* scored_overall: the overall scores of the entries that have one
ScoredOverall(res) ==
  LET with_score == SelectSeq(res, LAMBDA r : "overall_score" \in DOMAIN r)
  IN  [i \in 1..Len(with_score) |-> with_score[i].overall_score]

\* a report whose verdict leaves --fail-on-errors out
report_dict_lenient(fx, a, res, passed, errors, pass_rate, avg_overall, dim_avgs, dim_threshold_failures) ==
  [summary |->
     [total_cases |-> Len(res),
      passed_cases |-> passed,
      failed_cases |-> Len(res) - passed,
      error_cases |-> errors,
      pass_rate |-> Round4(pass_rate),
      average_overall_score |-> Round4(avg_overall),
      dimension_averages |-> [dim \in DOMAIN dim_avgs |-> Round4(dim_avgs[dim])],
      thresholds |-> [case_min_overall |-> CaseMinOverall(fx, a),
                      suite_min_pass_rate |-> SuiteMinPassRate(fx, a),
                      dimension_min_average |-> SuiteDimMins(fx),
                      fail_on_errors |-> a.fail_on_errors],
      dimension_threshold_failures |-> dim_threshold_failures,
      passed |-> /\ FGe(pass_rate, SuiteMinPassRate(fx, a))
                 /\ Len(dim_threshold_failures) = 0],
   results |-> res]

\* the report main builds after the loop
report_dict(fx, a, res, passed, errors, pass_rate, avg_overall, dim_avgs, dim_threshold_failures) ==
  [summary |->
     [total_cases |-> Len(res),
      passed_cases |-> passed,
      failed_cases |-> Len(res) - passed,
      error_cases |-> errors,
      pass_rate |-> Round4(pass_rate),
      average_overall_score |-> Round4(avg_overall),
      dimension_averages |-> [dim \in DOMAIN dim_avgs |-> Round4(dim_avgs[dim])],
      thresholds |-> [case_min_overall |-> CaseMinOverall(fx, a),
                      suite_min_pass_rate |-> SuiteMinPassRate(fx, a),
                      dimension_min_average |-> SuiteDimMins(fx),
                      fail_on_errors |-> a.fail_on_errors],
      dimension_threshold_failures |-> dim_threshold_failures,
      passed |-> /\ FGe(pass_rate, SuiteMinPassRate(fx, a))
                 /\ Len(dim_threshold_failures) = 0
                 /\ ~(a.fail_on_errors /\ errors > 0)],
   results |-> res]

report_rates(fx, a, res, passed, errors, avg_overall, dim_avgs) ==
  report_dict(fx, a, res, passed, errors,
              IF Len(res) # 0 THEN FromRat(passed, Len(res)) ELSE FZero,
              avg_overall, dim_avgs,
              DimThresholdFailures(dim_avgs, SuiteDimMins(fx), 1))

\* a report that counts an entry with an error among the passed cases
ReportCountingErrorsAsPassed(fx, a, res, rollup) ==
  report_rates(fx, a, res,
               Cardinality({i \in 1..Len(res) : res[i].passed \/ "error" \in DOMAIN res[i]}),
               Cardinality({i \in 1..Len(res) : "error" \in DOMAIN res[i]}),
               Mean(ScoredOverall(res)),
               [dim \in DOMAIN rollup |-> Mean(rollup[dim])])

Report(fx, a, res, rollup) ==
  report_rates(fx, a, res,
               Cardinality({i \in 1..Len(res) : res[i].passed}),
               Cardinality({i \in 1..Len(res) : "error" \in DOMAIN res[i]}),
               Mean(ScoredOverall(res)),
               [dim \in DOMAIN rollup |-> Mean(rollup[dim])])

\* a return value that is 0 whatever the verdict
exit_status_zero(passed) == 0

\* return 0 if suite_passed else 1 (and the same for the gate's verdict)
exit_status(passed) == IF passed THEN 0 ELSE 1

\* after the last case: the report is printed and main returns
Finish ==
  /\ pc = "loop" /\ idx > Len(SelectedCases(fixture, args))
  /\ report' = Report(fixture, args, results, dimension_rollup)
  /\ exit_code' = exit_status(report'.summary.passed)
  /\ pc' = "done"
  /\ UNCHANGED <<fixture, args, idx, results, dimension_rollup, invocations, evars, gvars>>

(***************************************************************************)
(* The guardrail gate, main of reason_guardrail_gate.py, on the parsed      *)
(* report file.                                                            *)
(***************************************************************************)
\* the thresholds of the gate's command line when no flag is given
GateDefaults ==
  [min_pass_rate |-> Lit(80), min_overall |-> Lit(72), min_grounding |-> Lit(62),
   min_actionability |-> Lit(65), min_usefulness |-> Lit(68), max_error_rate |-> Lit(5),
   max_empty_content_rate |-> Lit(2), max_hard_failure_rate |-> Lit(10)]

\* the command lines of the gate: the defaults, one with the three maximum
\* rates at 0.5, and one with --min-pass-rate 0.5 as well
GateArgs ==
  {GateDefaults,
   [max_error_rate |-> Lit(50), max_empty_content_rate |-> Lit(50),
    max_hard_failure_rate |-> Lit(50)] @@ GateDefaults,
   [min_pass_rate |-> Lit(50), max_error_rate |-> Lit(50), max_empty_content_rate |-> Lit(50),
    max_hard_failure_rate |-> Lit(50)] @@ GateDefaults}

\* the command lines of the gate on the report of a suite run: the defaults,
\* and --min-pass-rate 0.6667
GateArgsOnSuiteReport ==
  {GateDefaults, [min_pass_rate |-> FromRat(6667, 10000)] @@ GateDefaults}

\* safe_float(d.get(key), default): the values of the reports here are
\* floats, and None falls back to the default
safe_float(d, key, default) == Get(d, key, default)

\* total = max(1, int(summary.get("total_cases", len(results) or 1)))
gate_total(summary, res) ==
  Max({1, Get(summary, "total_cases", IF Len(res) # 0 THEN Len(res) ELSE 1)})

\* the counts with every entry that has a hard_failures list counted
gate_counts_listed(summary, res) ==
  [error_rate |-> Get(summary, "error_cases", 0),
   empty_content_rate |->
     Cardinality({i \in 1..Len(res) : Get(res[i], "empty_content", FALSE)}),
   hard_failure_rate |->
     Cardinality({i \in 1..Len(res) : "hard_failures" \in DOMAIN res[i]})]

\* error_cases, empty_content_cases and hard_failure_cases
gate_counts(summary, res) ==
  [error_rate |-> Get(summary, "error_cases", 0),
   empty_content_rate |->
     Cardinality({i \in 1..Len(res) : Get(res[i], "empty_content", FALSE)}),
   hard_failure_rate |->
     Cardinality({i \in 1..Len(res) : Len(Get(res[i], "hard_failures", <<>>)) # 0})]

\* the three rates: each count / float(total)
gate_rates(counts, total) == [k \in DOMAIN counts |-> FromRat(counts[k], total)]

\* the values the gate reads from the summary
gate_read(summary, dim_avgs) ==
  [pass_rate |-> safe_float(summary, "pass_rate", FZero),
   average_overall_score |-> safe_float(summary, "average_overall_score", FZero),
   factual_grounding |-> safe_float(dim_avgs, "factual_grounding", FZero),
   actionability |-> safe_float(dim_avgs, "actionability", FZero),
   usefulness |-> safe_float(dim_avgs, "usefulness", FZero)]

\* a minimum check that is ok only above its bound
MinCheckStrict(name, value, min) ==
  [name |-> name, value |-> value, min |-> min, ok |-> FLt(min, value)]

MinCheck(name, value, min) ==
  [name |-> name, value |-> value, min |-> min, ok |-> FGe(value, min)]

\* value <= max
MaxCheck(name, value, max) ==
  [name |-> name, value |-> value, max |-> max, ok |-> FGe(max, value)]

\* the checks with a ninth one, on contradiction handling
gate_checks_with_contradiction(a, v) ==
  <<MinCheck("pass_rate", v.pass_rate, a.min_pass_rate),
    MinCheck("overall_score", v.average_overall_score, a.min_overall),
    MinCheck("grounding", v.factual_grounding, a.min_grounding),
    MinCheck("actionability", v.actionability, a.min_actionability),
    MinCheck("usefulness", v.usefulness, a.min_usefulness),
    MinCheck("contradiction_handling", FZero, FZero),
    MaxCheck("error_rate", v.error_rate, a.max_error_rate),
    MaxCheck("empty_content_rate", v.empty_content_rate, a.max_empty_content_rate),
    MaxCheck("hard_failure_rate", v.hard_failure_rate, a.max_hard_failure_rate)>>

gate_checks(a, v) ==
  <<MinCheck("pass_rate", v.pass_rate, a.min_pass_rate),
    MinCheck("overall_score", v.average_overall_score, a.min_overall),
    MinCheck("grounding", v.factual_grounding, a.min_grounding),
    MinCheck("actionability", v.actionability, a.min_actionability),
    MinCheck("usefulness", v.usefulness, a.min_usefulness),
    MaxCheck("error_rate", v.error_rate, a.max_error_rate),
    MaxCheck("empty_content_rate", v.empty_content_rate, a.max_empty_content_rate),
    MaxCheck("hard_failure_rate", v.hard_failure_rate, a.max_hard_failure_rate)>>

\* a decision that passes as soon as the pass rate does
gate_dict_by_pass_rate(total, v, checks) ==
  [passed |-> checks[1].ok,
   summary |-> [total_cases |-> total] @@ [k \in DOMAIN v |-> Round4(v[k])],
   checks |-> checks,
   failed_checks |-> SelectSeq(checks, LAMBDA c : ~c.ok)]

\* the decision the gate prints (without the path of the report)
gate_dict(total, v, checks) ==
  [passed |-> Len(SelectSeq(checks, LAMBDA c : ~c.ok)) = 0,
   summary |-> [total_cases |-> total] @@ [k \in DOMAIN v |-> Round4(v[k])],
   checks |-> checks,
   failed_checks |-> SelectSeq(checks, LAMBDA c : ~c.ok)]

gate_values(a, total, v) == gate_dict(total, v, gate_checks(a, v))

gate_totalled(a, summary, res, total) ==
  gate_values(a, total,
              gate_read(summary, Get(summary, "dimension_averages", EmptyDict))
                @@ gate_rates(gate_counts(summary, res), total))

gate_main(rep, a) ==
  gate_totalled(a, Get(rep, "summary", EmptyDict), Get(rep, "results", <<>>),
                gate_total(Get(rep, "summary", EmptyDict), Get(rep, "results", <<>>)))

\* the entries of the reports the gate is run on by itself: an error entry,
\* a passed case, a case with a hard failure, and a failed case whose
\* content was empty
GateEntries ==
  {[id |-> "a", passed |-> FALSE, error |-> "provider unavailable"],
   [id |-> "b", passed |-> TRUE, overall_score |-> Lit(80), hard_failures |-> <<>>,
    empty_content |-> FALSE],
   [id |-> "c", passed |-> FALSE, overall_score |-> Lit(60),
    hard_failures |-> <<[dimension |-> "usefulness", score |-> Lit(40), min_score |-> Lit(60)]>>,
    empty_content |-> FALSE],
   [id |-> "d", passed |-> FALSE, overall_score |-> Lit(15), hard_failures |-> <<>>,
    empty_content |-> TRUE]}

RECURSIVE ResultLists(_)
ResultLists(n) ==
  IF n = 0 THEN {<<>>}
  ELSE ResultLists(n - 1) \cup {Append(rs, r) : rs \in ResultLists(n - 1), r \in GateEntries}

\* the summaries over a results array: with the counts of the array as the
\* suite writes them, with an error count that was not kept up with the
\* array, and one that holds the rates only
GateSummaries(res, passed, errors) ==
  {[total_cases |-> Len(res), passed_cases |-> passed, failed_cases |-> Len(res) - passed,
    error_cases |-> e,
    pass_rate |-> IF Len(res) # 0 THEN Round4(FromRat(passed, Len(res))) ELSE FZero,
    average_overall_score |-> Lit(72),
    dimension_averages |->
      [actionability |-> Lit(65), factual_grounding |-> Lit(62),
       contradiction_handling |-> Lit(10), usefulness |-> Lit(68)]] : e \in {errors, 0}}
    \cup {[pass_rate |-> Lit(80), average_overall_score |-> Lit(72)]}

\* the report files the gate is run on by itself
GateReports ==
  UNION {{[summary |-> s, results |-> res] :
            s \in GateSummaries(res, Cardinality({i \in 1..Len(res) : res[i].passed}),
                                Cardinality({i \in 1..Len(res) : "error" \in DOMAIN res[i]}))} :
           res \in ResultLists(MaxCases)}

\* the gate is run on a report
Gate ==
  /\ report # EmptyDict /\ gate = EmptyDict
  /\ \E a \in (IF pc = "done" THEN GateArgsOnSuiteReport ELSE GateArgs) :
       gate_args' = a /\ gate' = gate_main(report, a)
  /\ gate_exit' = exit_status(gate'.passed)
  /\ UNCHANGED <<svars, evars>>

\* the gate on a report file, without the suite run
GateInit ==
  /\ report \in GateReports
  /\ fixture = EmptyDict /\ args = EmptyDict /\ idx = 0 /\ results = <<>>
  /\ dimension_rollup = EmptyDict /\ invocations = <<>> /\ exit_code = -1 /\ pc = "idle"
  /\ EvalIdle
  /\ GateIdle

GateSpec == GateInit /\ [][Gate]_vars

Next == Load \/ SkipCase \/ RunCase \/ Finish \/ Gate

Spec == Init /\ [][Next]_vars

(***************************************************************************)
(* Properties of evaluate_case, stated on the call of EvalSpec once it has *)
(* returned.                                                               *)
(***************************************************************************)
Returned == epc = "return"

FLe(x, y) == FCmp(x, y) <= 0

DimensionSet == {DIMENSIONS[i] : i \in 1..Len(DIMENSIONS)}

\* the SignalConfig the case gives for a dimension
CaseCfg(dim) == signal_cfg(Get(the_case, "expected_signals", EmptyDict), dim)

\* the minimum the documentation gives a dimension: the per-case min_score
\* when there is one, else 0.55 / 0.50 / 0.50 / 0.60
StatedMinScore(dim) ==
  IF "min_score" \in DOMAIN CaseCfg(dim) THEN CaseCfg(dim).min_score
  ELSE CASE dim = "actionability" -> Lit(55)
         [] dim = "factual_grounding" -> Lit(50)
         [] dim = "contradiction_handling" -> Lit(50)
         [] dim = "usefulness" -> Lit(60)

\* the required dimensions whose reported score is below the minimum
StatedFailing ==
  SelectSeq(DIMENSIONS,
            LAMBDA dim : /\ Get(scored.dimension_scores[dim], "required", TRUE)
                         /\ FLt(scored.dimension_scores[dim].score, StatedMinScore(dim)))

\* whether the documentation requires contradiction handling of the case
StatedRequired ==
  IF "required" \in DOMAIN CaseCfg("contradiction_handling")
  THEN CaseCfg("contradiction_handling").required
  ELSE CONTRADICTION_PROMPT_HINT(the_case.prompt)

\* C1: evaluate_case never returns passed = true together with a non-empty
\* hard_failures list, however high overall_score is
PassedHasNoHardFailures ==
  Returned => ~(scored.passed /\ Len(scored.hard_failures) > 0)

\* a result whose overall score reaches case_min_overall and that has a hard
\* failure
HighScoreWithHardFailure ==
  /\ Returned
  /\ FGe(scored.overall_score, scored.case_min_overall)
  /\ Len(scored.hard_failures) > 0
  /\ ~scored.passed

\* C2: hard_failures holds exactly one entry (dimension, score, min) for each
\* required dimension whose reported score is below its min_score, in the
\* order of the dimensions; min_score is the one the case configures, else
\* the default of the dimension
HardFailuresAreTheFailingDimensions ==
  Returned =>
    /\ \A dim \in DimensionSet :
         scored.dimension_scores[dim].min_score = StatedMinScore(dim)
    /\ scored.hard_failures =
         [i \in 1..Len(StatedFailing) |->
            [dimension |-> StatedFailing[i],
             score |-> scored.dimension_scores[StatedFailing[i]].score,
             min |-> StatedMinScore(StatedFailing[i])]]

\* a result with two hard failures, one of them against a minimum the case
\* configures, and a dimension that passes only because of the minimum the
\* case configures
TwoHardFailuresOneConfigured ==
  /\ Returned
  /\ Len(scored.hard_failures) >= 2
  /\ \E dim \in DimensionSet :
       /\ "min_score" \in DOMAIN CaseCfg(dim)
       /\ FGe(scored.dimension_scores[dim].score, StatedMinScore(dim))
       /\ FLt(scored.dimension_scores[dim].score, DEFAULT_MIN_SCORES[dim])

\* C3: when contradiction handling is not required (explicit required =
\* false, or no flag and no conflict hint in the prompt), its result is
\* score 1.0, rubric 3, required false, passed true, and it is in no hard
\* failure, whatever the response text and the configured min_score
NotRequiredIsVacuous ==
  (Returned /\ ~StatedRequired) =>
    /\ scored.dimension_scores["contradiction_handling"].score = FOne
    /\ scored.dimension_scores["contradiction_handling"].rubric_score = 3
    /\ scored.dimension_scores["contradiction_handling"].required = FALSE
    /\ scored.dimension_scores["contradiction_handling"].passed = TRUE
    /\ \A i \in 1..Len(scored.hard_failures) :
         scored.hard_failures[i].dimension # "contradiction_handling"

\* a case with required = false and a min_score above 1.0, a prompt with a
\* conflict hint and a response that holds the word conflict
NotRequiredAboveFloor ==
  /\ Returned
  /\ "required" \in DOMAIN CaseCfg("contradiction_handling")
  /\ ~StatedRequired
  /\ CONTRADICTION_PROMPT_HINT(the_case.prompt)
  /\ Contains(the_content, "conflict")
  /\ FLt(FOne, scored.dimension_scores["contradiction_handling"].min_score)

PassedIffReportedScoreAndNoFailures ==
  Returned =>
    (scored.passed <=>
       (FGe(scored.overall_score, scored.case_min_overall) /\ Len(scored.hard_failures) = 0))

\* C6: every dimension score of the four scorers lies in [0, 1]
DimensionScoresInUnitInterval ==
  Returned =>
    \A dim \in DimensionSet :
      /\ FGe(scored.dimension_scores[dim].score, FZero)
      /\ FLe(scored.dimension_scores[dim].score, FOne)

\* a response with more hits than min_hits asks for, whose actionability
\* score is 1.0 by the caps
ScoreAtTheCap ==
  /\ Returned
  /\ scored.dimension_scores["actionability"].details.hit_count
       > scored.dimension_scores["actionability"].details.min_hits
  /\ scored.dimension_scores["actionability"].score = FOne

\* C7: the overall_score of every case result lies in [0, 1], for every
\* dimension-weight configuration of the fixture
OverallScoreInUnitInterval ==
  Returned => (FGe(scored.overall_score, FZero) /\ FLe(scored.overall_score, FOne))

\* the band of a score: 3 from 0.85, 2 from 0.65, 1 from 0.40, else 0
Band(score) ==
  IF FGe(score, Lit(85)) THEN 3
  ELSE IF FGe(score, Lit(65)) THEN 2
  ELSE IF FGe(score, Lit(40)) THEN 1
  ELSE 0

\* C8: in every dimension result, rubric_score is the band of the reported
\* score
RubricIsBandOfReportedScore ==
  Returned =>
    \A dim \in DimensionSet :
      scored.dimension_scores[dim].rubric_score = Band(scored.dimension_scores[dim].score)

\* the weight the documentation gives a dimension: the one the fixture sets
\* for it, under any of its names, else 0.30 / 0.30 / 0.15 / 0.25
StatedWeight(dim) ==
  IF \E k \in DOMAIN the_weights : METRIC_ALIASES[k] = dim
  THEN the_weights[CHOOSE k \in DOMAIN the_weights : METRIC_ALIASES[k] = dim]
  ELSE CASE dim = "actionability" -> Lit(30)
         [] dim = "factual_grounding" -> Lit(30)
         [] dim = "contradiction_handling" -> Lit(15)
         [] dim = "usefulness" -> Lit(25)

\* sum(weight_d)
StatedWeightSum ==
  FAdd(FAdd(FAdd(FAdd(FZero, StatedWeight("actionability")),
                 StatedWeight("factual_grounding")),
            StatedWeight("contradiction_handling")),
       StatedWeight("usefulness"))

Weighted(dim) == FMul(scored.dimension_scores[dim].score, StatedWeight(dim))

\* sum(score_d * weight_d)
StatedWeightedTotal ==
  FAdd(FAdd(FAdd(FAdd(FZero, Weighted("actionability")), Weighted("factual_grounding")),
            Weighted("contradiction_handling")),
       Weighted("usefulness"))

\* dimension results with the scores 0.9, 0.8, 1.0, 0.7
ExampleDims ==
  [actionability |-> [score |-> Lit(90)], factual_grounding |-> [score |-> Lit(80)],
   contradiction_handling |-> [score |-> FOne], usefulness |-> [score |-> Lit(70)]]

\* C9, as the claim has it: overall_score equals the weighted mean
\* sum(score_d * weight_d) / sum(weight_d) of the four dimension scores
OverallIsWeightedMean ==
  Returned =>
    /\ StatedWeightSum.m # <<>>
    /\ scored.overall_score = FDiv(StatedWeightedTotal, StatedWeightSum)

\* C9, amended: overall_score equals the weighted mean of the four reported
\* dimension scores rounded to four decimals, and 0.0 when the weights do
\* not sum to more than zero; the default weights stand for every dimension
\* the fixture does not override, and the scores 0.9, 0.8, 1.0, 0.7 under
\* the default weights give 0.835
OverallIsRoundedWeightedMean ==
  /\ Returned =>
       scored.overall_score =
         IF FLt(FZero, StatedWeightSum)
         THEN Round4(FDiv(StatedWeightedTotal, StatedWeightSum))
         ELSE FZero
  /\ Round4(overall_of(ExampleDims, MergedWeights(EmptyDict))) = FromRat(835, 1000)

\* a result under weights the fixture overrides whose weighted mean is not
\* a decimal of four places
MeanIsRounded ==
  /\ Returned
  /\ the_weights # EmptyDict
  /\ FLt(FZero, StatedWeightSum)
  /\ scored.overall_score # FDiv(StatedWeightedTotal, StatedWeightSum)

(***************************************************************************)
(* Properties of the suite run.                                            *)
(***************************************************************************)
\* the process exited non-zero, or printed something that is not JSON on a
\* zero exit
FailedRun(out) == ~out.timeout /\ (out.returncode # 0 \/ out.stdout.type = "text")

\* an entry that records an error: passed = false, an error, no score
ErrorEntry(entry) ==
  /\ entry.passed = FALSE
  /\ "error" \in DOMAIN entry
  /\ "overall_score" \notin DOMAIN entry
  /\ "dimension_scores" \notin DOMAIN entry

\* C10: a case whose process exits non-zero or prints non-JSON output on a
\* zero exit never aborts the suite: the case is recorded as an error entry
\* with passed = false and no score, main goes on to the next case, and a
\* run that reaches its report has recorded every case
FailedRunNeverAborts ==
  /\ \A k \in 1..Len(invocations) :
       FailedRun(invocations[k].outcome) =>
         /\ invocations[k].idx <= Len(results)
         /\ ErrorEntry(results[invocations[k].idx])
         /\ (pc = "raised" => k < Len(invocations))
  /\ pc = "loop" => idx = Len(results) + 1
  /\ pc = "done" => Len(results) = Len(SelectedCases(fixture, args))
  /\ \A i \in 1..Len(results) :
       "prompt" \in DOMAIN results[i] => \E k \in 1..Len(invocations) : invocations[k].idx = i

\* a finished run whose first case printed non-JSON output on a zero exit
\* and whose second case was run and scored
ScoredAfterFailedRun ==
  /\ pc = "done"
  /\ Len(invocations) = 2
  /\ invocations[1].outcome.returncode = 0
  /\ FailedRun(invocations[1].outcome)
  /\ ErrorEntry(results[1])
  /\ "overall_score" \in DOMAIN results[2]

\* the process ran over the per-case timeout
TimedOut(out) == out.timeout

\* C11: a case whose external call exceeds the per-case timeout is recorded
\* as an error entry for that case, like any other execution error: main goes
\* on to the remaining cases and still emits its report
TimeoutIsRecordedAndNotFatal ==
  \A k \in 1..Len(invocations) :
    TimedOut(invocations[k].outcome) =>
      /\ pc # "raised"
      /\ invocations[k].idx <= Len(results)
      /\ ErrorEntry(results[invocations[k].idx])

\* the process exited 0 and printed JSON that is not an object, or an object
\* without content and without answer
MalformedPayload(out) ==
  /\ ~out.timeout /\ out.returncode = 0
  /\ \/ out.stdout.type = "array"
     \/ /\ out.stdout.type = "object"
        /\ "content" \notin DOMAIN out.stdout.value
        /\ "answer" \notin DOMAIN out.stdout.value

\* C12: a zero exit with JSON that lacks the content (or answer) field, or
\* that is not a JSON object, is recorded as an error entry with no score for
\* that case, and main does not end there
MalformedPayloadIsParseError ==
  \A k \in 1..Len(invocations) :
    MalformedPayload(invocations[k].outcome) =>
      /\ pc = "raised" => k < Len(invocations)
      /\ invocations[k].idx <= Len(results)
      /\ ErrorEntry(results[invocations[k].idx])

\* the case gives neither prompt nor the legacy query
NoPrompt(case) == Get(case, "prompt", "") = "" /\ Get(case, "query", "") = ""

\* the loaded fixture has a cases array that is not empty
HasCases == "cases" \in DOMAIN fixture /\ Len(fixture.cases) # 0

\* no process was run, no entry recorded, no report printed
NothingDone == invocations = <<>> /\ results = <<>> /\ report = EmptyDict

\* the cases main runs: the first --max-cases of the fixture, or all
StatedSelected ==
  IF Get(args, "max_cases", 0) > 0
  THEN SubSeq(fixture.cases, 1, Min({args.max_cases, Len(fixture.cases)}))
  ELSE fixture.cases

\* C13 as stated: a fixture with a case that has no prompt, or no
\* expected_signals, is a fatal error before any case executes: no process
\* is run and no report is produced
IncompleteCaseIsFatal ==
  (/\ pc # "load" /\ HasCases
   /\ \E i \in 1..Len(fixture.cases) :
        NoPrompt(fixture.cases[i]) \/ "expected_signals" \notin DOMAIN fixture.cases[i])
    => (pc = "raised" /\ NothingDone)

\* C13: a fixture without a cases array (under cases or the legacy prompts),
\* or with an empty one, ends main before any case executes, with no process
\* run and no report.  A case without prompt (and without query) is recorded
\* as the error entry "missing prompt/query" with passed = false and no
\* score, no process is run for it, and every other case main reaches is run
OnlyMissingCasesIsFatal ==
  pc # "load" =>
    /\ ~HasCases => (pc = "raised" /\ NothingDone)
    /\ HasCases =>
         \A i \in 1..Len(results) :
           IF NoPrompt(StatedSelected[i])
           THEN /\ ErrorEntry(results[i])
                /\ results[i].error = "missing prompt/query"
                /\ \A k \in 1..Len(invocations) : invocations[k].idx # i
           ELSE \E k \in 1..Len(invocations) : invocations[k].idx = i

\* a finished run with its report, in which a case without prompt was
\* recorded and a case without expected_signals was run and scored
ReportWithMissingPromptCase ==
  /\ pc = "done" /\ report # EmptyDict
  /\ \E i \in 1..Len(results) :
       NoPrompt(fixture.cases[i]) /\ results[i].error = "missing prompt/query"
  /\ \E j \in 1..Len(results) :
       /\ "expected_signals" \notin DOMAIN fixture.cases[j]
       /\ "overall_score" \in DOMAIN results[j]

\* the id of the i-th case: its own, or case- and its position in three digits
StatedId(case, i) ==
  IF "id" \in DOMAIN case THEN case.id ELSE <<"case-001", "case-002", "case-003", "case-004">>[i]

\* the entry carries the id of the case and, when the case has one, its prompt
BelongsTo(entry, case, i) ==
  /\ entry.id = StatedId(case, i)
  /\ IF NoPrompt(case) THEN "prompt" \notin DOMAIN entry
     ELSE entry.prompt = (IF Get(case, "prompt", "") # "" THEN case.prompt ELSE case.query)

\* C14: the results hold one entry per selected case in fixture order, entry
\* i belonging to case i, while main runs and in its report, whatever mix of
\* scored and error entries
ResultsFollowFixtureOrder ==
  (pc # "load" /\ HasCases) =>
    /\ Len(results) <= Len(StatedSelected)
    /\ \A i \in 1..Len(results) : BelongsTo(results[i], StatedSelected[i], i)
    /\ pc = "done" => (Len(results) = Len(StatedSelected) /\ report.results = results)

\* a report of two cases: an error entry, then a scored entry for a case
\* that has no id of its own
MixedRunInFixtureOrder ==
  /\ pc = "done"
  /\ Len(report.results) = 2
  /\ ErrorEntry(report.results[1])
  /\ "overall_score" \in DOMAIN report.results[2]
  /\ "id" \notin DOMAIN fixture.cases[2]
  /\ report.results[2].id = "case-002"

\* the entries that have a score
ScoredEntries(res) == SelectSeq(res, LAMBDA r : "overall_score" \in DOMAIN r)

OverallScoresOf(res) ==
  [i \in 1..Len(ScoredEntries(res)) |-> ScoredEntries(res)[i].overall_score]

DimScoresOf(res, dim) ==
  [i \in 1..Len(ScoredEntries(res)) |-> ScoredEntries(res)[i].dimension_scores[dim].score]

\* the mean of the values, 0.0 when there is none
StatedMean(vals) == IF Len(vals) = 0 THEN FZero ELSE fmean(vals)

\* total_cases, passed_cases and pass_rate count every entry
CountsEveryCase(s, res) ==
  /\ s.total_cases = Len(res)
  /\ s.passed_cases = Cardinality({i \in 1..Len(res) : res[i].passed})
  /\ s.error_cases = Cardinality({i \in 1..Len(res) : "error" \in DOMAIN res[i]})
  /\ s.pass_rate = Round4(FromRat(s.passed_cases, Len(res)))

\* the report of the example: two scored cases with dimension scores 0.8 and
\* 0.6, and an error case
ExampleReport ==
  Report([cases |-> <<>>], [fail_on_errors |-> FALSE],
         <<[id |-> "a", passed |-> TRUE, overall_score |-> Lit(80)],
           [id |-> "b", passed |-> FALSE, overall_score |-> Lit(60)],
           [id |-> "c", passed |-> FALSE, error |-> "provider unavailable"]>>,
         [dim \in DimensionSet |-> <<Lit(80), Lit(60)>>])

\* C15 as stated: the averages of the summary are the means over the scored
\* cases
AveragesAreMeansOfScoredCases ==
  pc = "done" =>
    /\ CountsEveryCase(report.summary, report.results)
    /\ report.summary.average_overall_score = StatedMean(OverallScoresOf(report.results))
    /\ \A dim \in DimensionSet :
         report.summary.dimension_averages[dim] = StatedMean(DimScoresOf(report.results, dim))

\* C15: in the summary each dimension average and average_overall_score is
\* the mean over the scored cases only, rounded to four decimals, and 0.0
\* when no case was scored; total_cases and the denominator of pass_rate
\* count every case, error cases included; scored 0.8, scored 0.6 and an
\* error give a dimension average of 0.7 and a denominator of 3
AveragesAreRoundedMeansOfScoredCases ==
  pc = "done" =>
    /\ CountsEveryCase(report.summary, report.results)
    /\ report.summary.average_overall_score
         = Round4(StatedMean(OverallScoresOf(report.results)))
    /\ \A dim \in DimensionSet :
         report.summary.dimension_averages[dim]
           = Round4(StatedMean(DimScoresOf(report.results, dim)))
    /\ \A dim \in DimensionSet : ExampleReport.summary.dimension_averages[dim] = Lit(70)
    /\ ExampleReport.summary.average_overall_score = Lit(70)
    /\ ExampleReport.summary.total_cases = 3
    /\ ExampleReport.summary.pass_rate = Round4(FromRat(1, 3))

\* a report of a scored case and an error case whose averages are the
\* scores of the scored case, not their halves
ErrorCaseLeftOutOfAverages ==
  /\ pc = "done"
  /\ report.summary.total_cases = 2
  /\ report.summary.error_cases = 1
  /\ Len(ScoredEntries(report.results)) = 1
  /\ report.summary.average_overall_score = ScoredEntries(report.results)[1].overall_score
  /\ report.summary.average_overall_score # FZero
  /\ report.summary.pass_rate = Lit(50)

\* C16: the suite's passed flag is true exactly when pass_rate (passed cases
\* over all cases) is at least suite_min_pass_rate, there is no dimension
\* threshold failure, and fail_on_errors is off or there is no error case
SuitePassedIsTheStatedConjunction ==
  pc = "done" =>
    /\ report.summary.thresholds.suite_min_pass_rate
         = Get(Get(fixture, "thresholds", EmptyDict), "suite_min_pass_rate", Lit(70))
    /\ report.summary.thresholds.fail_on_errors = args.fail_on_errors
    /\ report.summary.passed <=>
         /\ FGe(FromRat(report.summary.passed_cases, report.summary.total_cases),
                report.summary.thresholds.suite_min_pass_rate)
         /\ report.summary.dimension_threshold_failures = <<>>
         /\ (~report.summary.thresholds.fail_on_errors \/ report.summary.error_cases = 0)
    /\ exit_code = (IF report.summary.passed THEN 0 ELSE 1)

\* a run with --fail-on-errors whose pass rate meets the minimum and whose
\* dimension averages meet theirs, failed by its one error case
ErrorCaseFailsTheSuite ==
  /\ pc = "done"
  /\ args.fail_on_errors
  /\ report.summary.error_cases = 1
  /\ FGe(report.summary.pass_rate, report.summary.thresholds.suite_min_pass_rate)
  /\ report.summary.dimension_threshold_failures = <<>>
  /\ ~report.summary.passed

\* the suite-level minimums the fixture configures
ConfiguredMins == Get(Get(fixture, "thresholds", EmptyDict), "dimension_min_average", EmptyDict)

\* the keys under which a minimum for the dimension can be configured
KeysOf(dim) ==
  {dim} \cup {k \in DOMAIN METRIC_ALIASES : METRIC_ALIASES[k] = dim}

\* the dimensions whose mean over the scored cases is below their configured
\* suite-level minimum
StatedBelowSuiteMin(res) ==
  {dim \in DimensionSet :
     \E k \in KeysOf(dim) \cap DOMAIN ConfiguredMins :
       FLt(StatedMean(DimScoresOf(res, dim)), ConfiguredMins[k])}

\* C17: dimension_threshold_failures holds one entry for each dimension
\* whose suite-level average is below the suite-level minimum configured for
\* it and no other entry, whatever the case-level min_score values
ThresholdFailuresAreDimensionsBelowSuiteMin ==
  pc = "done" =>
    /\ {report.summary.dimension_threshold_failures[i].dimension :
          i \in 1..Len(report.summary.dimension_threshold_failures)}
         = StatedBelowSuiteMin(report.results)
    /\ Len(report.summary.dimension_threshold_failures)
         = Cardinality(StatedBelowSuiteMin(report.results))
    /\ \A i \in 1..Len(report.summary.dimension_threshold_failures) :
         \E k \in KeysOf(report.summary.dimension_threshold_failures[i].dimension)
                    \cap DOMAIN ConfiguredMins :
           report.summary.dimension_threshold_failures[i].min_avg = ConfiguredMins[k]

\* a report whose only threshold failure is factual grounding, configured
\* under grounding, while another dimension averages below its case-level
\* default minimum and no case has a hard failure for factual grounding
SuiteMinimumAloneDecides ==
  /\ pc = "done"
  /\ Len(report.summary.dimension_threshold_failures) = 1
  /\ report.summary.dimension_threshold_failures[1].dimension = "factual_grounding"
  /\ \E dim \in DimensionSet \ {"factual_grounding"} :
       /\ Len(DimScoresOf(report.results, dim)) # 0
       /\ FLt(StatedMean(DimScoresOf(report.results, dim)), DEFAULT_MIN_SCORES[dim])

(***************************************************************************)
(* Properties of the guardrail gate.                                       *)
(***************************************************************************)
GateRan == gate # EmptyDict

MaximumChecks == {"error_rate", "empty_content_rate", "hard_failure_rate"}

\* C18: every gate check is inclusive at its boundary: a minimum check
\* (pass_rate, overall_score, the dimension averages) is ok exactly when its
\* value is at least min, a maximum check (error_rate, empty_content_rate,
\* hard_failure_rate) exactly when its value is at most max
GateChecksAreInclusive ==
  GateRan =>
    \A i \in 1..Len(gate.checks) :
      IF gate.checks[i].name \in MaximumChecks
      THEN /\ "min" \notin DOMAIN gate.checks[i]
           /\ gate.checks[i].ok <=> FCmp(gate.checks[i].value, gate.checks[i].max) <= 0
           /\ gate.checks[i].value = gate.checks[i].max => gate.checks[i].ok
      ELSE /\ "max" \notin DOMAIN gate.checks[i]
           /\ gate.checks[i].ok <=> FCmp(gate.checks[i].value, gate.checks[i].min) >= 0
           /\ gate.checks[i].value = gate.checks[i].min => gate.checks[i].ok

\* a decision on a report with pass_rate 0.80 under min_pass_rate 0.80, and
\* one of whose maximum checks sits at its bound: both checks are ok
ChecksAtTheirBounds ==
  /\ GateRan
  /\ gate.checks[1].name = "pass_rate"
  /\ gate.checks[1].value = Lit(80) /\ gate.checks[1].min = Lit(80) /\ gate.checks[1].ok
  /\ \E i \in 1..Len(gate.checks) :
       /\ gate.checks[i].name \in MaximumChecks
       /\ gate.checks[i].value = gate.checks[i].max
       /\ gate.checks[i].value # FZero
       /\ gate.checks[i].ok

\* C19: the gate's passed flag is the conjunction of the ok flags of its
\* checks; the decision lists every check, also when all pass, and
\* failed_checks is the sub-list of the checks that are not ok, so passed is
\* true exactly when failed_checks is empty
GatePassedIsConjunctionOfChecks ==
  GateRan =>
    /\ [i \in 1..Len(gate.checks) |-> gate.checks[i].name]
         = <<"pass_rate", "overall_score", "grounding", "actionability", "usefulness",
             "error_rate", "empty_content_rate", "hard_failure_rate">>
    /\ gate.passed <=> \A i \in 1..Len(gate.checks) : gate.checks[i].ok
    /\ gate.failed_checks = SelectSeq(gate.checks, LAMBDA c : ~c.ok)
    /\ gate.passed <=> gate.failed_checks = <<>>

\* a decision that passes, with its eight checks listed and none failed
AllChecksListedOnSuccess ==
  /\ GateRan
  /\ gate.passed
  /\ Len(gate.checks) = 8
  /\ gate.failed_checks = <<>>
  /\ gate_exit = 0

\* the value of the check of that name
CheckValue(name) ==
  (CHOOSE c \in {gate.checks[i] : i \in 1..Len(gate.checks)} : c.name = name).value

\* C20 as stated: the three rates are recomputed from the results array: the
\* entries carrying an error, with empty_content true, with a non-empty
\* hard_failures list, each over the number of cases
GateRatesRecomputedFromResults ==
  (GateRan /\ Len(report.results) # 0) =>
    /\ CheckValue("error_rate")
         = FromRat(Cardinality({i \in 1..Len(report.results) :
                                  "error" \in DOMAIN report.results[i]}),
                   Len(report.results))
    /\ CheckValue("empty_content_rate")
         = FromRat(Cardinality({i \in 1..Len(report.results) :
                                  Get(report.results[i], "empty_content", FALSE)}),
                   Len(report.results))
    /\ CheckValue("hard_failure_rate")
         = FromRat(Cardinality({i \in 1..Len(report.results) :
                                  Get(report.results[i], "hard_failures", <<>>) # <<>>}),
                   Len(report.results))

\* the total the gate divides by: total_cases of the summary, the number of
\* result entries when the summary has none, and at least 1
StatedTotal ==
  IF "total_cases" \in DOMAIN report.summary
  THEN Max({1, report.summary.total_cases})
  ELSE Max({1, Len(report.results)})

\* C20: error_rate is the error_cases count of the report's summary (0 when
\* it has none) over the total; empty_content_rate and hard_failure_rate are
\* the numbers of result entries with empty_content true and with a
\* non-empty hard_failures list over the total
GateRatesFromSummaryCountAndResults ==
  GateRan =>
    /\ CheckValue("error_rate") = FromRat(Get(report.summary, "error_cases", 0), StatedTotal)
    /\ CheckValue("empty_content_rate")
         = FromRat(Cardinality({i \in 1..Len(report.results) :
                                  Get(report.results[i], "empty_content", FALSE)}),
                   StatedTotal)
    /\ CheckValue("hard_failure_rate")
         = FromRat(Cardinality({i \in 1..Len(report.results) :
                                  Get(report.results[i], "hard_failures", <<>>) # <<>>}),
                   StatedTotal)

\* a decision on a report whose results hold an error entry that the
\* summary's error_cases does not count: error_rate is 0.0
StaleErrorCountIsTrusted ==
  /\ GateRan
  /\ \E i \in 1..Len(report.results) : "error" \in DOMAIN report.results[i]
  /\ Get(report.summary, "error_cases", 0) = 0
  /\ CheckValue("error_rate") = FZero
  /\ \E i \in 1..Len(report.results) : Get(report.results[i], "hard_failures", <<>>) # <<>>
  /\ CheckValue("hard_failure_rate") # FZero

\* the name of the gate's check for a dimension average
CheckNameOf(dim) == IF dim = "factual_grounding" THEN "grounding" ELSE dim

\* the names of the checks that carry that bound ("min" or "max")
ChecksWith(bound) ==
  {gate.checks[i].name : i \in {j \in 1..Len(gate.checks) : bound \in DOMAIN gate.checks[j]}}

\* the dimension averages of the report the gate was run on
ReportedDimAverages == Get(Get(report, "summary", EmptyDict), "dimension_averages", EmptyDict)

\* a count of result entries over the gate's total
RateOf(count) == FromRat(count, StatedTotal)

\* the three maximum checks hold of the report
RatesWithinMaximums ==
  /\ FLe(RateOf(Get(report.summary, "error_cases", 0)), gate_args.max_error_rate)
  /\ FLe(RateOf(Cardinality({i \in 1..Len(report.results) :
                               Get(report.results[i], "empty_content", FALSE)})),
         gate_args.max_empty_content_rate)
  /\ FLe(RateOf(Cardinality({i \in 1..Len(report.results) :
                               Get(report.results[i], "hard_failures", <<>>) # <<>>})),
         gate_args.max_hard_failure_rate)

\* pass_rate and the average overall score of the report meet their minimums
SummaryMeetsMinimums ==
  /\ FGe(Get(report.summary, "pass_rate", FZero), gate_args.min_pass_rate)
  /\ FGe(Get(report.summary, "average_overall_score", FZero), gate_args.min_overall)

\* C21 as stated: the gate has a minimum check for pass_rate, for the average
\* overall score and for every dimension present in dimension_averages, and
\* the three rates as maximum checks; a verdict of passed implies that each
\* of these values met its bound
GateChecksEveryDimensionAverage ==
  GateRan =>
    /\ {"pass_rate", "overall_score"} \subseteq ChecksWith("min")
    /\ \A dim \in DOMAIN ReportedDimAverages : CheckNameOf(dim) \in ChecksWith("min")
    /\ ChecksWith("max") = MaximumChecks
    /\ gate.passed => (SummaryMeetsMinimums /\ RatesWithinMaximums)

\* C21: the gate's minimum checks are pass_rate, overall_score and the
\* averages of actionability, factual grounding and usefulness, its maximum
\* checks the three rates; contradiction handling has no check and no bound.
\* A verdict of passed implies that each checked value met its bound
GateChecksLeaveOutContradictionHandling ==
  GateRan =>
    /\ ChecksWith("min")
         = {"pass_rate", "overall_score"}
             \cup {CheckNameOf(dim) : dim \in {"actionability", "factual_grounding", "usefulness"}}
    /\ ChecksWith("max") = MaximumChecks
    /\ gate.passed =>
         /\ SummaryMeetsMinimums
         /\ FGe(Get(ReportedDimAverages, "actionability", FZero), gate_args.min_actionability)
         /\ FGe(Get(ReportedDimAverages, "factual_grounding", FZero), gate_args.min_grounding)
         /\ FGe(Get(ReportedDimAverages, "usefulness", FZero), gate_args.min_usefulness)
         /\ RatesWithinMaximums

\* a decision that passes on a report whose contradiction handling average
\* is 0.1
PassesWithLowContradictionAverage ==
  /\ GateRan
  /\ gate.passed
  /\ "contradiction_handling" \in DOMAIN ReportedDimAverages
  /\ ReportedDimAverages.contradiction_handling = Lit(10)

(***************************************************************************)
(* Properties of the two commands together.                                *)
(***************************************************************************)
\* the keys of the summary of a suite report
SummaryKeys ==
  {"total_cases", "passed_cases", "failed_cases", "error_cases", "pass_rate",
   "average_overall_score", "dimension_averages", "thresholds",
   "dimension_threshold_failures", "passed"}

\* the report is there in full: its summary with every key, and every entry
\* recorded during the run
FullReport ==
  /\ DOMAIN report = {"summary", "results"}
  /\ DOMAIN report.summary = SummaryKeys
  /\ DOMAIN report.summary.dimension_averages = DimensionSet
  /\ report.results = results

\* the decision is there in full
FullDecision ==
  /\ DOMAIN gate = {"passed", "summary", "checks", "failed_checks"}
  /\ Len(gate.checks) = 8

ResponseContent(out) ==
  IF Get(out.stdout.value, "content", "") # "" THEN out.stdout.value.content
  ELSE Get(out.stdout.value, "answer", "")

\* empty or whitespace only
Blank(text) == \A i \in 1..Len(text) : Ch(text, i) \in Spaces

\* the invocations whose case has its entry in the results
Recorded == {k \in 1..Len(invocations) : invocations[k].idx <= Len(results)}

\* the scores and the verdict of an entry
ScoresOf(entry) ==
  [passed |-> entry.passed, overall_score |-> entry.overall_score,
   overall_rubric_score |-> entry.overall_rubric_score,
   hard_failures |-> entry.hard_failures, dimension_scores |-> entry.dimension_scores]

\* C23: the empty_content flag of a scored entry is true exactly when the
\* content of the response is blank and tokens_out of the payload is
\* positive; two entries of the same case and the same content have the same
\* scores and verdict whatever their flags; an entry with an error has no
\* empty_content flag
EmptyContentIsBlankWithTokens ==
  /\ \A k \in Recorded :
       LET entry == results[invocations[k].idx]
           out   == invocations[k].outcome
       IN  "error" \notin DOMAIN entry =>
             entry.empty_content
               <=> (Blank(ResponseContent(out)) /\ Get(out.stdout.value, "tokens_out", 0) > 0)
  /\ \A k \in Recorded : \A l \in Recorded :
       LET a == results[invocations[k].idx]
           b == results[invocations[l].idx]
       IN  (/\ "error" \notin DOMAIN a /\ "error" \notin DOMAIN b
            /\ StatedSelected[invocations[k].idx] = StatedSelected[invocations[l].idx]
            /\ ResponseContent(invocations[k].outcome) = ResponseContent(invocations[l].outcome))
             => ScoresOf(a) = ScoresOf(b)
  /\ \A i \in 1..Len(results) :
       "error" \in DOMAIN results[i] => "empty_content" \notin DOMAIN results[i]

\* two entries of the same case, both for an empty response: the one whose
\* payload counts tokens is flagged, the one without tokens is not, and
\* their scores are the same
SameScoresWithAndWithoutFlag ==
  /\ Len(results) = 2 /\ Len(invocations) = 2
  /\ StatedSelected[1] = StatedSelected[2]
  /\ "error" \notin DOMAIN results[1] /\ "error" \notin DOMAIN results[2]
  /\ results[1].empty_content /\ ~results[2].empty_content
  /\ ResponseContent(invocations[1].outcome) = ""
  /\ ResponseContent(invocations[2].outcome) = ""
  /\ ScoresOf(results[1]) = ScoresOf(results[2])

\* C24: the external process is invoked at most once per case, a failing
\* case included, and the cases run one after the other in fixture order:
\* an invocation is for the first case without an entry, so every earlier
\* invocation has its entry appended (or, for the last one, has ended main)
\* before the next one starts, and no two processes run at a time
OneInvocationPerCaseInSequence ==
  /\ \A k \in 1..Len(invocations) : \A l \in 1..Len(invocations) :
       k < l => invocations[k].idx < invocations[l].idx
  /\ \A k \in 1..Len(invocations) :
       /\ invocations[k].idx \in 1..Len(StatedSelected)
       /\ ~NoPrompt(StatedSelected[invocations[k].idx])
       /\ IF k < Len(invocations) \/ pc # "raised"
          THEN invocations[k].idx <= Len(results)
          ELSE invocations[k].idx = Len(results) + 1
  /\ Len(invocations) <= Len(results) + 1
  /\ pc \in {"loop", "done"} => Len(invocations) <= Len(results)

\* a finished run of two cases: the first failed and was run once, the
\* second was run once after it
FailedCaseRunOnceThenNext ==
  /\ pc = "done"
  /\ Len(invocations) = 2
  /\ invocations[1].idx = 1 /\ invocations[2].idx = 2
  /\ FailedRun(invocations[1].outcome)
  /\ ErrorEntry(results[1])
  /\ Len(results) = 2

\* the outcome of the process run for the i-th case
OutcomeFor(i) ==
  invocations[CHOOSE k \in 1..Len(invocations) : invocations[k].idx = i].outcome

\* the outcome ends main: a timeout, or a payload that is not an object
EndsMain(out) == out.timeout \/ (out.returncode = 0 /\ out.stdout.type = "array")

\* the entry of the i-th case as its own configuration and its own process
\* outcome give it, with the weights and thresholds of the suite
OwnEntry(case, i) ==
  IF NoPrompt(case)
  THEN [id |-> CaseId(case, i), passed |-> FALSE, error |-> "missing prompt/query"]
  ELSE IF run_reason(OutcomeFor(i)).returncode # 0
  THEN [id |-> CaseId(case, i), prompt |-> PromptOf(case), passed |-> FALSE,
        error |-> Strip(run_reason(OutcomeFor(i)).stderr),
        returncode |-> run_reason(OutcomeFor(i)).returncode]
  ELSE ScoredEntry(case, i, OutcomeFor(i).stdout.value)

\* C25: the entry of a case depends only on its own configuration and its
\* own process outcome, with the suite-wide weights and thresholds: whatever
\* the outcome (success, failure or timeout) of the other cases, a run that
\* has ended holds for the case the entry its own outcome gives it
EntryDependsOnOwnOutcomeOnly ==
  (pc \in {"done", "raised"} /\ HasCases) =>
    \A i \in 1..Len(StatedSelected) :
      (\A k \in 1..Len(invocations) :
         invocations[k].idx = i => ~EndsMain(invocations[k].outcome))
        => /\ i <= Len(results)
           /\ results[i] = OwnEntry(StatedSelected[i], i)

(***************************************************************************)
(* Properties of the scorers, stated on the call of EvalSpec once it has   *)
(* returned.                                                               *)
(***************************************************************************)
\* the details of the dimension, when its scorer looked for keywords
KeywordDetailsOf(dim) == scored.dimension_scores[dim].details

\* the dimensions whose scorer looked for keywords in this call
KeywordDims == {dim \in DimensionSet : "hits" \in DOMAIN KeywordDetailsOf(dim)}

\* hits is what unique_hits is said to return for the text and the terms
StatedUniqueHits(text, terms, hits) ==
  /\ \A i \in 1..Len(hits) : \A j \in 1..Len(hits) : i < j => StrLess(hits[i], hits[j])
  /\ {hits[i] : i \in 1..Len(hits)}
       = {terms[j] : j \in {n \in 1..Len(terms) : Contains(Lower(text), Lower(terms[n]))}}
  /\ \A i \in 1..Len(hits) : \A j \in 1..Len(hits) :
       Lower(hits[i]) = Lower(hits[j]) => i = j
  /\ unique_hits(text, hits) = hits

\* C26: unique_hits returns the terms that occur in the text as
\* case-insensitive substrings, sorted and without duplicates, a term
\* counting once however often it is in the text or in the term list, also
\* when the list holds it in different letter case; applied to its own
\* output as the term list it returns the same list
UniqueHitsCountsATermOnce ==
  Returned =>
    \A dim \in KeywordDims :
      /\ StatedUniqueHits(the_content, KeywordDetailsOf(dim).terms, KeywordDetailsOf(dim).hits)
      /\ KeywordDetailsOf(dim).hit_count = Len(KeywordDetailsOf(dim).hits)

\* the three-bullet response of the example
ThreeBullets == "- Next step: fix the retry bug\n- Owner: alice\n- Timeline: this week\n"

\* the call scores the example for actionability against the default action
\* terms, with min_hits = 1
ExampleCall ==
  /\ Returned
  /\ the_content = ThreeBullets
  /\ CaseCfg("actionability") = EmptyDict

\* what the example gives apart from the hits: keyword and heuristic score
\* 1.0 (two bullets or more, three action terms or more, an owner), score
\* 1.0, rubric score 3
ExampleScores(a) ==
  /\ a.details.min_hits = 1
  /\ a.details.terms = ACTION_TERMS
  /\ a.details.keyword_score = FOne
  /\ a.details.bullet_lines >= 2
  /\ a.details.action_term_hits >= 3
  /\ a.details.owner_or_time_detected
  /\ a.details.heuristic_score = FAdd(FAdd(Lit(35), Lit(35)), Lit(30))
  /\ a.details.heuristic_score = FOne
  /\ a.score = FOne
  /\ a.rubric_score = 3

\* C27 as stated: the example yields hit_count = 3 (next step, owner,
\* timeline), keyword_score 1.0, heuristic_score 1.0, score 1.0 and
\* rubric_score 3
ExampleHasThreeHits ==
  ExampleCall =>
    /\ scored.dimension_scores.actionability.details.hit_count = 3
    /\ scored.dimension_scores.actionability.details.hits = <<"next step", "owner", "timeline">>
    /\ ExampleScores(scored.dimension_scores.actionability)

\* C27: the example yields hit_count = 4 (fix, next step, owner, timeline),
\* keyword_score 1.0, heuristic_score 1.0 (0.35 for the bullets, 0.35 for the
\* action terms, 0.30 for the owner), score 1.0 and rubric_score 3
ExampleHasFourHits ==
  ExampleCall =>
    /\ scored.dimension_scores.actionability.details.hit_count = 4
    /\ scored.dimension_scores.actionability.details.hits
         = <<"fix", "next step", "owner", "timeline">>
    /\ scored.dimension_scores.actionability.details.bullet_lines = 3
    /\ scored.dimension_scores.actionability.details.action_term_hits = 4
    /\ ExampleScores(scored.dimension_scores.actionability)

\* the example has been scored, with "fix" among its hits
ExampleScored ==
  /\ ExampleCall
  /\ scored.dimension_scores.actionability.score = FOne
  /\ \E i \in 1..4 : scored.dimension_scores.actionability.details.hits[i] = "fix"

\* min(1, n / d)
CappedRatio(n, d) == FMin(FOne, FromRat(n, d))

\* the number of the summary words in the text
SummaryHits(text) ==
  Cardinality({w \in {"summary", "recommend", "risk", "impact", "decision"} :
                 Contains(Lower(text), w)})

\* the heuristic of usefulness: 0.25 for a heading, 0.25 for three bullets
\* or 0.10 for one, 0.25 for two specific numbers or 0.10 for one, 0.25 for
\* two summary words or 0.10 for one, capped at 1.0
StatedUsefulnessHeuristic(d, summary_hits) ==
  FMin(FOne,
       FAdd(FAdd(FAdd(IF d.headings >= 1 THEN Lit(25) ELSE FZero,
                      IF d.bullet_lines >= 3 THEN Lit(25)
                      ELSE IF d.bullet_lines >= 1 THEN Lit(10) ELSE FZero),
                 IF d.specificity_tokens >= 2 THEN Lit(25)
                 ELSE IF d.specificity_tokens >= 1 THEN Lit(10) ELSE FZero),
            IF summary_hits >= 2 THEN Lit(25) ELSE IF summary_hits = 1 THEN Lit(10) ELSE FZero))

\* 0.40 * word_score + 0.35 * keyword_score + 0.25 * heuristic_score
StatedBlend(word_score, kw, heur) ==
  FAdd(FAdd(FMul(Lit(40), word_score), FMul(Lit(35), kw)), FMul(Lit(25), heur))

\* the usefulness score is the blend with the word score taken over min_words
BlendsOver(u, min_words) ==
  /\ u.details.word_score = Round4(CappedRatio(u.details.word_count, min_words))
  /\ u.score = Round4(StatedBlend(CappedRatio(u.details.word_count, min_words),
                                  CappedRatio(u.details.hit_count, u.details.min_hits),
                                  StatedUsefulnessHeuristic(u.details,
                                                            SummaryHits(the_content))))

\* C28 as stated: the usefulness score is 0.40 * word_score + 0.35 *
\* keyword_score + 0.25 * heuristic_score with word_score = min(1, words /
\* min_words) over the configured min_words, so that a response with at
\* least the configured min_words words has word_score 1.0
WordScoreOverConfiguredMinWords ==
  (Returned /\ "min_words" \in DOMAIN CaseCfg("usefulness")) =>
    /\ BlendsOver(scored.dimension_scores.usefulness, CaseCfg("usefulness").min_words)
    /\ scored.dimension_scores.usefulness.details.word_count
         >= CaseCfg("usefulness").min_words
         => scored.dimension_scores.usefulness.details.word_score = FOne

\* C28: the usefulness score is 0.40 * word_score + 0.35 * keyword_score +
\* 0.25 * heuristic_score rounded to four decimals, with word_score = min(1,
\* words / min_words) where min_words is the larger of 40 and the configured
\* value (100 when none is configured): a response with at least that many
\* words has word_score 1.0
WordScoreOverFlooredMinWords ==
  Returned =>
    /\ scored.dimension_scores.usefulness.details.min_words
         = Max({40, Get(CaseCfg("usefulness"), "min_words", 100)})
    /\ BlendsOver(scored.dimension_scores.usefulness,
                  Max({40, Get(CaseCfg("usefulness"), "min_words", 100)}))
    /\ scored.dimension_scores.usefulness.details.word_count
         >= scored.dimension_scores.usefulness.details.min_words
         => scored.dimension_scores.usefulness.details.word_score = FOne

\* a response of forty words scored under a configured min_words of 10: the
\* word score is 1.0 over min_words 40
FortyWordsReachTheFloor ==
  /\ Returned
  /\ Get(CaseCfg("usefulness"), "min_words", 100) = 10
  /\ scored.dimension_scores.usefulness.details.word_count = 40
  /\ scored.dimension_scores.usefulness.details.min_words = 40
  /\ scored.dimension_scores.usefulness.details.word_score = FOne

(***************************************************************************)
(* Properties of the suite and the gate on its report.                     *)
(***************************************************************************)
\* the gate was run on the report of the suite with --min-pass-rate equal
\* to the suite's suite_min_pass_rate
SameThreshold ==
  /\ pc = "done" /\ GateRan
  /\ gate_args.min_pass_rate = report.summary.thresholds.suite_min_pass_rate

\* the suite's own pass-rate condition: passed cases over all cases is at
\* least suite_min_pass_rate
SuitePassRateHeld ==
  FGe(FromRat(report.summary.passed_cases, report.summary.total_cases),
      report.summary.thresholds.suite_min_pass_rate)

\* C29: on a report of the suite, the gate's pass_rate check run with
\* min_pass_rate equal to suite_min_pass_rate is ok exactly when the suite's
\* own pass-rate condition held
GateAndSuiteAgreeOnPassRate ==
  SameThreshold =>
    /\ gate.checks[1].name = "pass_rate"
    /\ gate.checks[1].ok <=> SuitePassRateHeld

\* the positions of the entries of the report that carry an error
ErrorPositions == {i \in 1..Len(report.results) : "error" \in DOMAIN report.results[i]}

\* C30: in every suite report the summary counts agree with the results
\* list: total_cases is the number of entries, passed_cases and error_cases
\* count the entries that passed and that carry an error, passed_cases +
\* failed_cases = total_cases and error_cases <= failed_cases; an entry with
\* an error has passed = false and no overall_score, an entry without one
\* has an overall_score and the scores of all four dimensions
SummaryCountsMatchResults ==
  pc = "done" =>
    /\ report.summary.total_cases = Len(report.results)
    /\ report.summary.passed_cases
         = Cardinality({i \in 1..Len(report.results) : report.results[i].passed})
    /\ report.summary.error_cases = Cardinality(ErrorPositions)
    /\ report.summary.passed_cases + report.summary.failed_cases = report.summary.total_cases
    /\ report.summary.error_cases <= report.summary.failed_cases
    /\ \A i \in 1..Len(report.results) :
         IF i \in ErrorPositions
         THEN /\ report.results[i].passed = FALSE
              /\ "overall_score" \notin DOMAIN report.results[i]
         ELSE /\ "overall_score" \in DOMAIN report.results[i]
              /\ DOMAIN report.results[i].dimension_scores = DimensionSet
              /\ \A dim \in DimensionSet :
                   "score" \in DOMAIN report.results[i].dimension_scores[dim]

\* a report of three cases: one passed, one scored and failed, one with an
\* error, so that error_cases is below failed_cases
PassedFailedAndErrorCase ==
  /\ pc = "done"
  /\ report.summary.total_cases = 3
  /\ report.summary.passed_cases = 1
  /\ report.summary.failed_cases = 2
  /\ report.summary.error_cases = 1
  /\ \E i \in 1..3 :
       /\ "overall_score" \in DOMAIN report.results[i]
       /\ ~report.results[i].passed

====
